---- MODULE Spec2Model ----
(***************************************************************************)
(* WikiGraph-Explorer: the page graph and its all-shortest-paths search,   *)
(* the SQL tuple parser, the line readers and the loader pipeline.         *)
(*                                                                         *)
(* Page indices are 0-based as in the source: a vector of n elements is a  *)
(* function with domain 0..n-1 where the source indexes it, and a TLA+     *)
(* sequence where the source only appends to it or walks it.               *)
(***************************************************************************)
EXTENDS Integers, Sequences, FiniteSets, TLC

(***************************************************************************)
(* Bounds of the model.                                                    *)
(***************************************************************************)
\* number of pages of the exhaustively enumerated graphs
NumPages == 3
\* number of links of the exhaustively enumerated graphs
MaxLinks == 2
\* number of characters between the quotes of an enumerated string literal
MaxStrLen == 3
\* number of characters of the exhaustively enumerated decompressed files
MaxFileLen == 4
\* number of characters one read of the decompressor returns at most
MaxChunk == 2
\* number of INSERT INTO lines of a dump file
MaxLines == 2
\* number of rows of one INSERT INTO line
MaxRows == 2
\* number of calls of PageGraph::init
MaxInitCalls == 2
\* number of INSERT INTO batches of a timed load
MaxBatches == 2
\* number of records one batch adds to the container
MaxBatch == 2
\* number of ticks the clock of a timed load runs for
MaxTime == 4
\* number of INSERT INTO lines of a file parsed on the worker pool
MaxPoolLines == 10
\* number of get_line calls on a reader whose block index is followed
MaxIndexedLines == 2

(***************************************************************************)
(* Program constants.                                                      *)
(***************************************************************************)
\* the "unreached" distance. The source uses 2^32 - 1; the checker's integers
\* end at 2^31 - 1, and the code only tests the value for equality and relies
\* on it being larger than every real distance, which this value keeps.
UINT32_MAX == 2147483647

\* AsyncLineReader::MAX_QUEUE_SIZE
AsyncMaxQueueSize == 10

\* ParallelLineReader::MAX_QUEUE_SIZE
ParallelMaxQueueSize == 32

\* max_concurrent of parse_insert_lines
MaxConcurrent == 4

\* UIState::refresh_rate in ticks of the model's clock: 200 ms, one tick
\* being 100 ms
RefreshRate == 2

VARIABLES
    \* ---- PageGraph and one all_shortest_paths call -------------------
    adjacency_list,        \* PageGraph::adjacency_list, [0..n-1 -> Seq(index)]
    bfs_pc,                \* position of the search thread
    start_index,           \* argument of all_shortest_paths
    end_index,             \* argument of all_shortest_paths
    dist,                  \* bfs_with_parents: dist
    parents,               \* bfs_with_parents: parents
    queue,                 \* bfs_with_parents: queue
    current_layer,         \* bfs_with_parents: current_layer
    layer_size,            \* bfs_with_parents: layer_size
    layer_explored_count,  \* bfs_with_parents: layer_explored_count
    total_explored_count,  \* bfs_with_parents: total_explored_count
    bfs_progress,          \* UIState::bfs_progress, as last published
    path_stack,            \* all_shortest_paths: path_stack (top = last)
    paths,                 \* all_shortest_paths: paths (the result)
    \* ---- PageLoader::parse_line on one line ---------------------------
    sql_rows,              \* the fields the line was written from
    sql_line,              \* the line, a sequence of characters
    sql_pc,                \* position inside parse_line
    sql_tuples,            \* the tuples of extract_tuples not yet parsed
    m_tuple,               \* SQLTupleParser::m_tuple
    m_pos,                 \* SQLTupleParser::m_pos
    page_id,               \* parse_line: page_id
    page_namespace,        \* parse_line: page_namespace
    page_title,            \* parse_line: page_title
    sql_pages,             \* parse_line: pages (the result)
    \* ---- a line reader, its producer thread and parse_insert_lines ----
    rd_profile,            \* "sequential" (AsyncLineReader) or "parallel"
    rd_loader,             \* the loader that runs parse_insert_lines
    rd_file,               \* the decompressed contents of the file
    rd_open_ok,            \* gzopen succeeded
    rd_fail_at,            \* the offset at which decompression fails, or NoFailure
    rd_started,            \* the reader thread has been started
    rd_ppc,                \* position of read_lines (the producer)
    rd_off,                \* decompressed characters read so far
    rd_chunk,              \* the characters of the last read
    rd_scan,               \* start_index / data_ptr inside the chunk
    rd_pending,            \* pending_line / line_buffer
    rd_queue,              \* queue_
    rd_done,               \* done_
    rd_waiting,            \* AsyncLineReader::cv_: the threads blocked in cv_.wait
    rd_cpc,                \* position of parse_insert_lines (the consumer)
    rd_line,               \* parse_insert_lines: line
    is_first_emitted,      \* parse_insert_lines: is_first_emitted
    rd_futures,            \* parse_insert_lines: futures (parallel build)
    rd_container,          \* the records the loader's callbacks inserted
    rd_enqueued,           \* history: every line pushed into queue_
    rd_delivered,          \* history: every line get_line returned
    \* ---- the loading pipeline: UIState, the loaders, the loader thread ----
    stage,                 \* UIState::stage
    ui_pc,                 \* position of the UI thread inside the download renderer
    download_started,      \* create_download_ui: static bool download_started
    download_error,        \* !state.download_error_message.empty()
    downloads_running,     \* the files whose download thread is running
    download_complete,     \* page_ / pagelinks_ / linktarget_download_complete
    loader_pc,             \* position of the loader thread
    page_file,             \* the lines of the page dump
    linktarget_file,       \* the lines of the linktarget dump
    pagelinks_file,        \* the lines of the pagelinks dump
    line_no,               \* lines the running loader has read
    first_result,          \* parse_insert_lines: is_first_emitted of the running loader
    pages_,                \* PageLoader::pages_ (each with the id it was parsed with)
    page_id_to_index_,     \* PageLoader::page_id_to_index_
    page_title_to_index_,  \* PageLoader::page_title_to_index_
    page_count,            \* UIState::page_count, set by the progress callback
    linktarget_map_,       \* LinkTargetLoader::linktarget_map_
    linktarget_stats,      \* LinkTargetLoader's counters
    linktarget_count,      \* UIState::linktarget_count, set by the progress callback
    links_,                \* LinkLoader::links_
    link_stats,            \* LinkLoader's counters
    link_count,            \* UIState::link_count, set by the progress callback
    instance,              \* PageGraph::instance != nullptr
    graph_pages,           \* PageGraph::pages_
    number_of_links,       \* PageGraph::number_of_links
    init_calls,            \* history: the calls of PageGraph::init so far
    \* ---- perform_search on the search thread ---------------------------
    search_pc,             \* position of the search thread inside perform_search
    is_searching,          \* UIState::is_searching
    error_message,         \* UIState::error_message
    found_paths,           \* UIState::found_paths
    \* ---- one load function under the steady clock ----------------------
    prog_pc,               \* position of the load function
    prog_batches,          \* the records each remaining INSERT INTO line adds
    prog_first,            \* parse_insert_lines: no result was handled yet
    prog_size,             \* links_.size()
    prog_now,              \* std::chrono::steady_clock::now()
    prog_start_time,       \* load_pagelinks_table: start_time
    prog_last_time,        \* load_pagelinks_table: last_time
    prog_calls,            \* history: the invocations of the progress callback
    \* ---- parse_insert_lines of the parallel build on a WThreadPool --------
    pool_pc,               \* position of the thread that runs parse_insert_lines
    pool_file,             \* the lines get_line returns: "insert" or "other"
    pool_line_no,          \* lines get_line has returned
    pool_submitted,        \* tasks handed to pool.enqueue, numbered from 1
    pool_tasks,            \* WThreadPool::tasks
    pool_running,          \* the tasks the worker threads are executing
    pool_done,             \* the tasks whose future is ready
    pool_futures,          \* parse_insert_lines: futures
    pool_emitted,          \* history: the results passed to on_result
    pool_first,            \* history: the results passed to on_first
    pool_is_first_emitted, \* parse_insert_lines: is_first_emitted
    pool_stop,             \* WThreadPool::stop
    pool_exited,           \* worker threads that have returned
    \* ---- a ParallelLineReader and the block index of its data file -----
    idx_pc,                \* position inside the constructor, then of the reader
    data_path,             \* WikiFile::data_path
    index_path,            \* WikiFile::index_path, "" when none is given
    idx_data_exists,       \* std::filesystem::exists(file_.data_path)
    idx_files,             \* the block index files on disk
    resolved_index_path_,  \* ParallelLineReader::resolved_index_path_
    idx_imported,          \* history: the index files given to importIndex
    idx_lines              \* history: the calls of get_line

bfsRun == <<bfs_pc, start_index, end_index, dist, parents, queue, current_layer,
            layer_size, layer_explored_count, total_explored_count, bfs_progress,
            path_stack, paths>>

bfsVars == <<adjacency_list, bfsRun>>

sqlVars == <<sql_rows, sql_line, sql_pc, sql_tuples, m_tuple, m_pos, page_id,
             page_namespace, page_title, sql_pages>>

rdInputs == <<rd_profile, rd_loader, rd_file, rd_open_ok, rd_fail_at>>

rdProducer == <<rd_ppc, rd_off, rd_chunk, rd_scan, rd_pending>>

rdConsumer == <<rd_cpc, rd_line, is_first_emitted, rd_futures, rd_container>>

rdVars == <<rdInputs, rdProducer, rdConsumer, rd_started, rd_queue, rd_done,
            rd_waiting, rd_enqueued, rd_delivered>>

dumpFiles == <<page_file, linktarget_file, pagelinks_file>>

uiVars == <<ui_pc, download_started, download_error, downloads_running, download_complete>>

pageVars == <<pages_, page_id_to_index_, page_title_to_index_, page_count>>

linktargetVars == <<linktarget_map_, linktarget_stats, linktarget_count>>

linkVars == <<links_, link_stats, link_count>>

graphVars == <<instance, graph_pages, number_of_links, init_calls>>

loaderVars == <<line_no, first_result, pageVars, linktargetVars, linkVars, graphVars>>

searchVars == <<search_pc, is_searching, error_message, found_paths>>

pipeVars == <<stage, loader_pc, dumpFiles, uiVars, loaderVars, searchVars>>

progVars == <<prog_pc, prog_batches, prog_first, prog_size, prog_now, prog_start_time,
              prog_last_time, prog_calls>>

poolVars == <<pool_pc, pool_file, pool_line_no, pool_submitted, pool_tasks, pool_running,
              pool_done, pool_futures, pool_emitted, pool_first, pool_is_first_emitted,
              pool_stop, pool_exited>>

idxVars == <<idx_pc, data_path, index_path, idx_data_exists, idx_files,
             resolved_index_path_, idx_imported, idx_lines>>

vars == <<bfsVars, sqlVars, rdVars, pipeVars, progVars, poolVars, idxVars>>

\* what a step of the search leaves alone
SearchFrame == UNCHANGED <<sqlVars, rdVars, pipeVars, progVars, poolVars, idxVars>>

\* what a step of parse_line leaves alone
ParseFrame == UNCHANGED <<bfsVars, rdVars, pipeVars, progVars, poolVars, idxVars>>

\* what a step of a line reader or of parse_insert_lines leaves alone
ReaderFrame == UNCHANGED <<bfsVars, sqlVars, rdInputs, pipeVars, progVars, poolVars, idxVars>>

\* what a step of the UI thread or of the loader thread leaves alone
PipeFrame == UNCHANGED <<bfsRun, sqlVars, rdVars, dumpFiles, searchVars, progVars, poolVars, idxVars>>

\* no ParallelLineReader is followed through its constructor
IdxIdle ==
    /\ idx_pc = "unused"
    /\ data_path = ""
    /\ index_path = ""
    /\ idx_data_exists = FALSE
    /\ idx_files = {}
    /\ resolved_index_path_ = ""
    /\ idx_imported = <<>>
    /\ idx_lines = 0

\* no parse_insert_lines is running on a worker pool
PoolIdle ==
    /\ pool_pc = "unused"
    /\ pool_file = <<>>
    /\ pool_line_no = 0
    /\ pool_submitted = 0
    /\ pool_tasks = <<>>
    /\ pool_running = {}
    /\ pool_done = {}
    /\ pool_futures = <<>>
    /\ pool_emitted = <<>>
    /\ pool_first = <<>>
    /\ pool_is_first_emitted = TRUE
    /\ pool_stop = FALSE
    /\ pool_exited = 0

\* no load function is being timed
ProgIdle ==
    /\ prog_pc = "unused"
    /\ prog_batches = <<>>
    /\ prog_first = TRUE
    /\ prog_size = 0
    /\ prog_now = 0
    /\ prog_start_time = 0
    /\ prog_last_time = 0
    /\ prog_calls = <<>>

(***************************************************************************)
(* Sequence helpers.                                                       *)
(***************************************************************************)
Last(s) == s[Len(s)]

SeqRange(s) == {s[i] : i \in 1..Len(s)}

\* all sequences over S of length at most n
RECURSIVE SeqsUpTo(_, _)
SeqsUpTo(S, n) ==
    IF n = 0 THEN {<<>>}
    ELSE LET shorter == SeqsUpTo(S, n - 1)
         IN  shorter \cup {Append(s, x) : s \in {t \in shorter : Len(t) = n - 1}, x \in S}

(***************************************************************************)
(* PageGraph construction.                                                 *)
(***************************************************************************)
\* struct Link {page_from, page_to}
Link(from, to) == [page_from |-> from, page_to |-> to]

\* the destinations of the links leaving page i, in edge-list order
RECURSIVE RowOf(_, _)
RowOf(links, i) ==
    IF links = <<>> THEN <<>>
    ELSE LET rest == RowOf(Tail(links), i)
         IN  IF Head(links).page_from = i THEN <<Head(links).page_to>> \o rest ELSE rest

\* a loop that skips a link whose destination the row already holds
RECURSIVE AppendLinksOnce(_, _)
AppendLinksOnce(adj, links) ==
    IF links = <<>> THEN adj
    ELSE LET link == Head(links)
         IN  AppendLinksOnce(
                 IF link.page_to \in {adj[link.page_from][j] :
                                          j \in DOMAIN adj[link.page_from]}
                 THEN adj
                 ELSE [adj EXCEPT ![link.page_from] = Append(@, link.page_to)],
                 Tail(links))

\* the loop of lines 46-48: one emplace_back(link.page_to) on the row
\* link.page_from per link, in the order of the edge list
RECURSIVE AppendLinks(_, _)
AppendLinks(adj, links) ==
    IF links = <<>> THEN adj
    ELSE LET link == Head(links)
         IN  AppendLinks([adj EXCEPT ![link.page_from] = Append(@, link.page_to)],
                         Tail(links))

\* PageGraph::PageGraph: adjacency_list.resize(pages.size()), then the loop
\* over the links
BuildAdjacency(n, links) == AppendLinks([i \in 0..(n - 1) |-> <<>>], links)

\* PageGraph::get_number_of_pages
NumberOfPages(adj) == Cardinality(DOMAIN adj)

(***************************************************************************)
(* bfs_with_parents.                                                       *)
(***************************************************************************)
\* a search that takes every dequeued node for the start of a layer, and so
\* stops as soon as the end node has a distance
EnteringNewLayerAtEveryNode(d, node, layer) == d[node] >= layer

\* a search that takes every node beyond the start for the start of a layer
EnteringNewLayerPastStart(d, node, layer) == d[node] > 0

\* line 127: the dequeued node belongs to a deeper layer than the current one
EnteringNewLayer(d, node, layer) == d[node] > layer

\* a search that stops at the first new layer, whether or not the end node
\* has a distance
EndReachedAtAnyLayer(d, end) == TRUE

\* line 128: the end node has been reached
EndReached(d, end) == d[end] # UINT32_MAX

\* a visit that records u as a parent of every already reached v that is not
\* farther than one step behind u
VisitEdgeLaxParent(st, u, v) ==
    IF st.dist[v] = UINT32_MAX
    THEN [dist    |-> [st.dist EXCEPT ![v] = st.dist[u] + 1],
          parents |-> [st.parents EXCEPT ![v] = Append(@, u)],
          queue   |-> Append(st.queue, v)]
    ELSE IF st.dist[v] <= st.dist[u] + 1 /\ st.dist[v] > 0
         THEN [st EXCEPT !.parents = [st.parents EXCEPT ![v] = Append(@, u)]]
         ELSE st

\* lines 151-157: the visit of one edge (u, v); st = [dist, parents, queue]
VisitEdge(st, u, v) ==
    IF st.dist[v] = UINT32_MAX
    THEN [dist    |-> [st.dist EXCEPT ![v] = st.dist[u] + 1],
          parents |-> [st.parents EXCEPT ![v] = Append(@, u)],
          queue   |-> Append(st.queue, v)]
    ELSE IF st.dist[v] = st.dist[u] + 1
         THEN [st EXCEPT !.parents = [st.parents EXCEPT ![v] = Append(@, u)]]
         ELSE st

\* lines 150-158: for (neighbor : adj[current_node])
RECURSIVE VisitNeighbors(_, _, _)
VisitNeighbors(st, u, nbrs) ==
    IF nbrs = <<>> THEN st
    ELSE VisitNeighbors(VisitEdge(st, u, Head(nbrs)), u, Tail(nbrs))

\* the value stored into state.bfs_progress
Progress(layer, size, explored, total) ==
    [current_layer |-> layer, layer_size |-> size,
     layer_explored_count |-> explored, total_explored_nodes |-> total]

(***************************************************************************)
(* all_shortest_paths.                                                     *)
(***************************************************************************)
\* line 214: std::ranges::reverse(current_path)
RECURSIVE ReversePath(_)
ReversePath(p) == IF p = <<>> THEN <<>> ELSE Append(ReversePath(Tail(p)), Head(p))

\* lines 220-224: push current_path + parent for every recorded parent, in order
RECURSIVE PushParents(_, _, _)
PushParents(stack, path, ps) ==
    IF ps = <<>> THEN stack
    ELSE PushParents(Append(stack, Append(path, Head(ps))), path, Tail(ps))

\* the graphs a search runs on: every graph built from at most MaxLinks links
\* over NumPages pages, the empty graph, and the graphs of the documented
\* scenarios (A=0, B=1, C=2, D=3, E=4, F=5)
LinkSet(n) == {Link(f, t) : f \in 0..(n - 1), t \in 0..(n - 1)}

DiamondLinks == <<Link(0, 1), Link(0, 2), Link(1, 3), Link(2, 3)>>

LayeredLinks == <<Link(0, 1), Link(1, 3), Link(0, 2), Link(2, 3),
                  Link(0, 4), Link(4, 5), Link(5, 3)>>

DoubledDiamondLinks == <<Link(0, 1), Link(0, 1), Link(0, 2), Link(1, 3), Link(2, 3)>>

\* a link inside a layer and a link back to the start, on the way to the end
SameLayerLinks == <<Link(0, 1), Link(0, 2), Link(1, 2), Link(2, 0), Link(2, 3)>>

Graphs ==
    {BuildAdjacency(NumPages, ls) : ls \in SeqsUpTo(LinkSet(NumPages), MaxLinks)}
    \cup {BuildAdjacency(0, <<>>),
          BuildAdjacency(4, DiamondLinks),
          BuildAdjacency(6, LayeredLinks),
          BuildAdjacency(4, DoubledDiamondLinks),
          BuildAdjacency(4, SameLayerLinks)}

BfsIdle ==
    /\ bfs_pc = "idle"
    /\ start_index = 0
    /\ end_index = 0
    /\ dist = <<>>
    /\ parents = <<>>
    /\ queue = <<>>
    /\ current_layer = 0
    /\ layer_size = 0
    /\ layer_explored_count = 0
    /\ total_explored_count = 0
    /\ bfs_progress = Progress(0, 0, 0, 0)
    /\ path_stack = <<>>
    /\ paths = <<>>

\* a bounds test that lets the index one past the last page through
OutOfBoundsPastEnd(adj, s, e) == s > NumberOfPages(adj) \/ e > NumberOfPages(adj)

\* all_shortest_paths line 189: an index is no index of a page
OutOfBounds(adj, s, e) == s >= NumberOfPages(adj) \/ e >= NumberOfPages(adj)

\* all_shortest_paths lines 189-194 and bfs_with_parents lines 105-121
AllShortestPathsCall(s, e) ==
    /\ bfs_pc = "idle"
    /\ start_index' = s
    /\ end_index' = e
    /\ paths' = <<>>
    /\ IF OutOfBounds(adjacency_list, s, e)
       THEN /\ bfs_pc' = "done"
            /\ UNCHANGED <<dist, parents, queue>>
       ELSE /\ bfs_pc' = "bfs"
            /\ dist' = [[i \in DOMAIN adjacency_list |-> UINT32_MAX] EXCEPT ![s] = 0]
            /\ parents' = [i \in DOMAIN adjacency_list |-> <<>>]
            /\ queue' = <<s>>
    /\ UNCHANGED <<adjacency_list, current_layer, layer_size, layer_explored_count,
                   total_explored_count, bfs_progress, path_stack>>
    /\ SearchFrame

\* a return that backtracks only when the end node is at least one edge away
BfsReturnNeedsAnEdge ==
    /\ bfs_progress' = Progress(current_layer, layer_size, layer_explored_count,
                                total_explored_count + layer_explored_count)
    /\ IF dist[end_index] # UINT32_MAX /\ dist[end_index] # 0
       THEN /\ path_stack' = <<<<end_index>>>>
            /\ bfs_pc' = "backtrack"
       ELSE /\ path_stack' = <<>>
            /\ bfs_pc' = "done"

\* lines 175-182 and all_shortest_paths lines 196-205: the final progress
\* update, the return of dist[end_index], and the start of the backtracking
BfsReturn ==
    /\ bfs_progress' = Progress(current_layer, layer_size, layer_explored_count,
                                total_explored_count + layer_explored_count)
    /\ IF dist[end_index] # UINT32_MAX
       THEN /\ path_stack' = <<<<end_index>>>>
            /\ bfs_pc' = "backtrack"
       ELSE /\ path_stack' = <<>>
            /\ bfs_pc' = "done"

\* one iteration of while (!queue.empty()), lines 123-173; refresh says
\* whether refresh_rate has elapsed at line 165
BfsIteration(refresh) ==
    /\ bfs_pc = "bfs"
    /\ queue # <<>>
    /\ LET current_node == Head(queue)
           newLayer == EnteringNewLayer(dist, current_node, current_layer)
       IN  IF newLayer /\ EndReached(dist, end_index)
           THEN \* break
                /\ queue' = Tail(queue)
                /\ BfsReturn
                /\ UNCHANGED <<dist, parents, current_layer, layer_size,
                               layer_explored_count, total_explored_count>>
           ELSE LET layer == IF newLayer THEN dist[current_node] ELSE current_layer
                    size == IF newLayer THEN Len(Tail(queue)) + 1 ELSE layer_size
                    total == IF newLayer THEN total_explored_count + layer_explored_count
                                         ELSE total_explored_count
                    explored == IF newLayer THEN 0 ELSE layer_explored_count
                    st == VisitNeighbors([dist |-> dist, parents |-> parents,
                                          queue |-> Tail(queue)],
                                         current_node, adjacency_list[current_node])
                IN  /\ dist' = st.dist
                    /\ parents' = st.parents
                    /\ queue' = st.queue
                    /\ current_layer' = layer
                    /\ layer_size' = size
                    /\ total_explored_count' = total
                    /\ layer_explored_count' = explored + 1
                    /\ bfs_progress' =
                         IF refresh
                         THEN Progress(layer, size, explored + 1, total + explored + 1)
                         ELSE IF newLayer THEN Progress(layer, size, explored, total)
                              ELSE bfs_progress
                    /\ UNCHANGED <<bfs_pc, path_stack>>
    /\ UNCHANGED <<adjacency_list, start_index, end_index, paths>>
    /\ SearchFrame

\* the loop ends because the queue is empty
BfsQueueEmpty ==
    /\ bfs_pc = "bfs"
    /\ queue = <<>>
    /\ BfsReturn
    /\ UNCHANGED <<adjacency_list, start_index, end_index, dist, parents, queue,
                   current_layer, layer_size, layer_explored_count,
                   total_explored_count, paths>>
    /\ SearchFrame

\* one iteration of while (!path_stack.empty()), lines 207-225
BacktrackIteration ==
    /\ bfs_pc = "backtrack"
    /\ path_stack # <<>>
    /\ LET current_path == Last(path_stack)
           popped == SubSeq(path_stack, 1, Len(path_stack) - 1)
           current_node == Last(current_path)
       IN  IF current_node = start_index
           THEN /\ paths' = Append(paths, ReversePath(current_path))
                /\ path_stack' = popped
           ELSE /\ path_stack' = PushParents(popped, current_path, parents[current_node])
                /\ UNCHANGED paths
    /\ UNCHANGED <<adjacency_list, bfs_pc, start_index, end_index, dist, parents, queue,
                   current_layer, layer_size, layer_explored_count,
                   total_explored_count, bfs_progress>>
    /\ SearchFrame

\* line 228: return paths
BacktrackReturn ==
    /\ bfs_pc = "backtrack"
    /\ path_stack = <<>>
    /\ bfs_pc' = "done"
    /\ UNCHANGED <<adjacency_list, start_index, end_index, dist, parents, queue,
                   current_layer, layer_size, layer_explored_count,
                   total_explored_count, bfs_progress, path_stack, paths>>
    /\ SearchFrame

(***************************************************************************)
(* SQLParserUtils: characters are one-character strings, a string of the   *)
(* source is a sequence of them, and positions are 0-based as in the code. *)
(***************************************************************************)
NPOS == -1

Digits == {"0", "1", "2", "3", "4", "5", "6", "7", "8", "9"}

DigitValue(c) ==
    CASE c = "0" -> 0 [] c = "1" -> 1 [] c = "2" -> 2 [] c = "3" -> 3 [] c = "4" -> 4
      [] c = "5" -> 5 [] c = "6" -> 6 [] c = "7" -> 7 [] c = "8" -> 8 [] c = "9" -> 9

\* s[pos], 0-based
At(s, pos) == s[pos + 1]

\* std::string_view::substr(start, len)
SubStr(s, start, len) == SubSeq(s, start + 1, start + len)

\* std::string_view::find(char, from): the first position >= from, or NPOS
RECURSIVE FindChar(_, _, _)
FindChar(s, c, from) ==
    IF from >= Len(s) THEN NPOS
    ELSE IF At(s, from) = c THEN from
    ELSE FindChar(s, c, from + 1)

\* std::string_view::find(string, from)
RECURSIVE FindStr(_, _, _)
FindStr(s, sub, from) ==
    IF from + Len(sub) > Len(s) THEN NPOS
    ELSE IF SubStr(s, from, Len(sub)) = sub THEN from
    ELSE FindStr(s, sub, from + 1)

\* SQLTupleParser::consume_delimiters: the position after it
ConsumeDelimiters(t, pos) ==
    IF pos < Len(t) /\ At(t, pos) = "," THEN pos + 1 ELSE pos

\* the end of the run of digits that starts at pos
RECURSIVE DigitsEnd(_, _)
DigitsEnd(t, pos) ==
    IF pos < Len(t) /\ At(t, pos) \in Digits THEN DigitsEnd(t, pos + 1) ELSE pos

RECURSIVE DecimalValue(_)
DecimalValue(ds) ==
    IF ds = <<>> THEN 0
    ELSE 10 * DecimalValue(SubSeq(ds, 1, Len(ds) - 1)) + DigitValue(Last(ds))

\* SQLTupleParser::next_int (std::from_chars): a minus sign is read for a
\* signed destination only; no digit is an error and leaves m_pos after the
\* consumed comma. The enumerated fields are far below the width of the type.
NextInt(t, pos, signed) ==
    LET p     == ConsumeDelimiters(t, pos)
        neg   == signed /\ p < Len(t) /\ At(t, p) = "-"
        first == IF neg THEN p + 1 ELSE p
        last  == DigitsEnd(t, first)
        mag   == DecimalValue(SubStr(t, first, last - first))
    IN  IF last = first
        THEN [ok |-> FALSE, value |-> 0, pos |-> p]
        ELSE [ok |-> TRUE, value |-> IF neg THEN 0 - mag ELSE mag, pos |-> last]

\* SQLTupleParser::next_bool
NextBool(t, pos) ==
    LET r == NextInt(t, pos, FALSE)
    IN  [ok |-> r.ok, value |-> (r.value # 0), pos |-> r.pos]

\* next_string line 26: m_tuple.find('\'', start)
FindClosingQuote(t, start) == FindChar(t, "'", start)

\* next_string line 36: std::ranges::replace(out, '_', ' ')
ReplaceUnderscores(s) == [i \in 1..Len(s) |-> IF s[i] = "_" THEN " " ELSE s[i]]

\* next_string lines 46-58: the decoding loop over the slice
RECURSIVE DecodeSlice(_, _, _)
DecodeSlice(slice, escape, out) ==
    IF slice = <<>> THEN [out |-> out, escape |-> escape]
    ELSE LET c == Head(slice)
         IN  IF escape
             THEN DecodeSlice(Tail(slice), FALSE,
                              IF c = "'" \/ c = "\\" THEN Append(out, c) ELSE out)
             ELSE IF c = "\\" THEN DecodeSlice(Tail(slice), TRUE, out)
             ELSE IF c = "_" THEN DecodeSlice(Tail(slice), FALSE, Append(out, " "))
             ELSE DecodeSlice(Tail(slice), FALSE, Append(out, c))

\* SQLTupleParser::next_string
NextString(t, pos) ==
    LET p == ConsumeDelimiters(t, pos)
    IN  IF p >= Len(t) \/ At(t, p) # "'"
        THEN [ok |-> FALSE, out |-> <<>>, pos |-> p]
        ELSE LET start == p + 1
                 end   == FindClosingQuote(t, start)
             IN  IF end = NPOS
                 THEN [ok |-> FALSE, out |-> <<>>, pos |-> start]
                 ELSE LET slice == SubStr(t, start, end - start)
                      IN  IF \A i \in 1..Len(slice) : slice[i] \notin {"\\", "'"}
                          THEN [ok |-> TRUE, out |-> ReplaceUnderscores(slice),
                                pos |-> end + 1]
                          ELSE LET d == DecodeSlice(slice, FALSE, <<>>)
                               IN  [ok |-> ~d.escape, out |-> d.out, pos |-> end + 1]

\* extract_tuples lines 85-94: the split on "),("
\* a split that takes the whole body for one tuple
SplitTuplesUnsplit(line, start) == <<SubStr(line, start, Len(line) - start)>>

RECURSIVE SplitTuples(_, _)
SplitTuples(line, start) ==
    LET end == FindStr(line, <<")", ",", "(">>, start)
    IN  IF end = NPOS THEN <<SubStr(line, start, Len(line) - start)>>
        ELSE <<SubStr(line, start, end - start)>> \o SplitTuples(line, end + 3)

\* extract_tuples: remove_prefix(line.find('(') + 1), remove_suffix(2), split
ExtractTuples(line) ==
    LET open == FindChar(line, "(", 0)
        body == SubStr(line, open + 1, Len(line) - (open + 1) - 2)
    IN  SplitTuples(body, 0)

\* struct Page, paired with its page_id as parse_line returns it
PageRow(id, title, redirect) ==
    [page_id |-> id, page_title |-> title, page_is_redirect |-> redirect]

(***************************************************************************)
(* The lines parse_line is run on, written from their fields.              *)
(***************************************************************************)
InsertPrefix == <<"I", "N", "S", "E", "R", "T", " ", "I", "N", "T", "O">>

ValuesPrefix == InsertPrefix \o <<" ", "x", " ", "V", "A", "L", "U", "E", "S", " ">>

\* (id,ns,'body',redirect)
TupleText(row) ==
    row.id \o <<",">> \o row.ns \o <<",", "'">> \o row.body \o <<"'", ",">> \o row.redirect

RECURSIVE JoinTuples(_)
JoinTuples(rows) ==
    IF Len(rows) = 1 THEN TupleText(rows[1])
    ELSE TupleText(rows[1]) \o <<")", ",", "(">> \o JoinTuples(Tail(rows))

\* INSERT INTO x VALUES (t1),(t2),...,(tn);
LineText(rows) == ValuesPrefix \o <<"(">> \o JoinTuples(rows) \o <<")", ";">>

Row(id, ns, body, redirect) == [id |-> id, ns |-> ns, body |-> body, redirect |-> redirect]

StringChars == {"a", "_", "\\", "'"}

\* the literal of the documented tuple (7,0,'O\'Neil\\s',0)
ONeilBody == <<"O", "\\", "'", "N", "e", "i", "l", "\\", "\\", "s">>

Bodies == SeqsUpTo(StringChars, MaxStrLen) \cup {ONeilBody}

IdFields == {<<"7">>, <<"1", "0">>, <<"a">>}

NamespaceFields == {<<"0">>, <<"1">>, <<"-", "1">>}

RedirectFields == {<<"0">>, <<"1">>, <<>>}

\* the documented line INSERT INTO x VALUES (1,0,'A_B',0),(2,0,'C',1);
TupleSplitRows == <<Row(<<"1">>, <<"0">>, <<"A", "_", "B">>, <<"0">>),
                    Row(<<"2">>, <<"0">>, <<"C">>, <<"1">>)>>

\* a literal that holds the separator of tuples
SeparatorBody == <<"a", ")", ",", "(", "a">>

\* rows for the lines of two tuples: an article, a row of another namespace,
\* a row whose id is no number, a row whose literal holds the separator
PairRows == {Row(<<"7">>, <<"0">>, <<"a", "_">>, <<"1">>),
             Row(<<"1", "0">>, <<"1">>, <<"a">>, <<"0">>),
             Row(<<"a">>, <<"0">>, <<"a">>, <<"0">>),
             Row(<<"7">>, <<"0">>, SeparatorBody, <<"0">>)}

RowLists ==
    {<<Row(id, ns, body, rd)>> :
        id \in IdFields, ns \in NamespaceFields, body \in Bodies, rd \in RedirectFields}
    \cup {TupleSplitRows}
    \cup {<<r1, r2>> : r1 \in PairRows, r2 \in PairRows}

SqlIdle ==
    /\ sql_rows = <<>>
    /\ sql_line = <<>>
    /\ sql_pc = "idle"
    /\ sql_tuples = <<>>
    /\ m_tuple = <<>>
    /\ m_pos = 0
    /\ page_id = 0
    /\ page_namespace = 0
    /\ page_title = <<>>
    /\ sql_pages = <<>>

(***************************************************************************)
(* PageLoader::parse_line, one step per field read.                        *)
(***************************************************************************)
\* lines 10-12: extract_tuples and the empty result vector
ParseLineCall ==
    /\ sql_pc = "line"
    /\ sql_tuples' = ExtractTuples(sql_line)
    /\ sql_pages' = <<>>
    /\ sql_pc' = "tuple"
    /\ UNCHANGED <<sql_rows, sql_line, m_tuple, m_pos, page_id, page_namespace, page_title>>
    /\ ParseFrame

\* lines 14-21: the next tuple gets a fresh parser and fresh locals
ParseNextTuple ==
    /\ sql_pc = "tuple"
    /\ sql_tuples # <<>>
    /\ m_tuple' = Head(sql_tuples)
    /\ sql_tuples' = Tail(sql_tuples)
    /\ m_pos' = 0
    /\ page_id' = 0
    /\ page_namespace' = 0
    /\ page_title' = <<>>
    /\ sql_pc' = "page_id"
    /\ UNCHANGED <<sql_rows, sql_line, sql_pages>>
    /\ ParseFrame

\* line 23: if (!parser.next_int(page_id)) continue;
ParsePageId ==
    /\ sql_pc = "page_id"
    /\ LET r == NextInt(m_tuple, m_pos, FALSE)
       IN  /\ m_pos' = r.pos
           /\ page_id' = IF r.ok THEN r.value ELSE page_id
           /\ sql_pc' = IF r.ok THEN "namespace" ELSE "tuple"
    /\ UNCHANGED <<sql_rows, sql_line, sql_tuples, m_tuple, page_namespace, page_title,
                   sql_pages>>
    /\ ParseFrame

\* lines 24-25: the namespace is read, and only namespace 0 goes on
ParseNamespace ==
    /\ sql_pc = "namespace"
    /\ LET r == NextInt(m_tuple, m_pos, TRUE)
       IN  /\ m_pos' = r.pos
           /\ page_namespace' = IF r.ok THEN r.value ELSE page_namespace
           /\ sql_pc' = IF r.ok /\ r.value = 0 THEN "title" ELSE "tuple"
    /\ UNCHANGED <<sql_rows, sql_line, sql_tuples, m_tuple, page_id, page_title, sql_pages>>
    /\ ParseFrame

\* line 26: if (!parser.next_string(page_title)) continue;
ParseTitle ==
    /\ sql_pc = "title"
    /\ LET r == NextString(m_tuple, m_pos)
       IN  /\ m_pos' = r.pos
           /\ page_title' = r.out
           /\ sql_pc' = IF r.ok THEN "redirect" ELSE "tuple"
    /\ UNCHANGED <<sql_rows, sql_line, sql_tuples, m_tuple, page_id, page_namespace,
                   sql_pages>>
    /\ ParseFrame

\* lines 27-29: the redirect flag is read and the page is emplaced
ParseRedirect ==
    /\ sql_pc = "redirect"
    /\ LET r == NextBool(m_tuple, m_pos)
       IN  /\ m_pos' = r.pos
           /\ sql_pages' = IF r.ok THEN Append(sql_pages, PageRow(page_id, page_title, r.value))
                                   ELSE sql_pages
           /\ sql_pc' = "tuple"
    /\ UNCHANGED <<sql_rows, sql_line, sql_tuples, m_tuple, page_id, page_namespace,
                   page_title>>
    /\ ParseFrame

\* line 32: return pages
ParseLineReturn ==
    /\ sql_pc = "tuple"
    /\ sql_tuples = <<>>
    /\ sql_pc' = "done"
    /\ UNCHANGED <<sql_rows, sql_line, sql_tuples, m_tuple, m_pos, page_id,
                   page_namespace, page_title, sql_pages>>
    /\ ParseFrame


(***************************************************************************)
(* The line readers.  A file is a sequence of characters; in the files of  *)
(* this part the character "I" at the start of a line stands for the       *)
(* prefix INSERT INTO, and the characters after it are the line's records. *)
(***************************************************************************)
NoFailure == -1

Min(a, b) == IF a <= b THEN a ELSE b

\* line.starts_with("INSERT INTO")
StartsWithInsert(line) == Len(line) >= 1 /\ line[1] = "I"

\* parse_fn(line): the records of an INSERT INTO line
ParseFn(line) == Tail(line)

\* the characters a read may return: at least one, at most the buffer, not
\* past the end of the file and not past the offset where decompression fails
ReadSizes ==
    LET left == IF rd_fail_at > rd_off THEN rd_fail_at - rd_off ELSE Len(rd_file) - rd_off
    IN  1..Min(MaxChunk, left)

\* the position of the next newline of the chunk at or after rd_scan, or NPOS
NextNewline == FindChar(rd_chunk, "\n", rd_scan)

\* a producer that finds room in the queue whatever it holds
AsyncQueueAlwaysHasRoom == TRUE

\* AsyncLineReader::read_lines line 89: the producer's wait predicate
AsyncQueueHasRoom == Len(rd_queue) < AsyncMaxQueueSize

\* a reader that reports end of stream as soon as the queue is empty
AsyncGetLineReadyAlways == TRUE

\* AsyncLineReader::get_line line 30: the consumer's wait predicate
AsyncGetLineReady == rd_queue # <<>> \/ rd_done

\* AsyncLineReader::read_lines lines 61-80: gzread and its three outcomes
AsyncRead ==
    /\ rd_profile = "sequential"
    /\ rd_started
    /\ rd_ppc = "read"
    /\ IF ~rd_open_ok
       THEN /\ rd_ppc' = "signal"
            /\ UNCHANGED <<rd_off, rd_chunk, rd_scan>>
       ELSE IF rd_off = rd_fail_at \/ rd_off = Len(rd_file)
            THEN /\ rd_ppc' = "flush"
                 /\ UNCHANGED <<rd_off, rd_chunk, rd_scan>>
            ELSE \E n \in ReadSizes :
                    /\ rd_chunk' = SubStr(rd_file, rd_off, n)
                    /\ rd_off' = rd_off + n
                    /\ rd_scan' = 0
                    /\ rd_ppc' = "scan"
    /\ UNCHANGED <<rd_pending, rdConsumer, rd_started, rd_waiting, rd_queue, rd_done,
                   rd_enqueued, rd_delivered>>
    /\ ReaderFrame

\* a notify_one that wakes nobody
NotifyNobody(waiting) == {waiting}

\* cv_.notify_one(): the wait sets it can leave behind; one waiting thread,
\* any of them, is woken when there is one
NotifyOne(waiting) ==
    IF waiting = {} THEN {waiting} ELSE {waiting \ {thread} : thread \in waiting}

\* cv_.notify_all(): every waiting thread is woken
NotifyAll(waiting) == {}

\* the producer stands at a cv_.wait of lines 89 or 114
AsyncProducerAtWait ==
    \/ rd_ppc = "scan" /\ NextNewline # NPOS
    \/ rd_ppc = "flush" /\ rd_pending # <<>>

\* cv_.wait of lines 89 and 114 with a false predicate: the producer gives up
\* the mutex and blocks until it is notified
AsyncProducerWait ==
    /\ rd_profile = "sequential"
    /\ AsyncProducerAtWait
    /\ "producer" \notin rd_waiting
    /\ ~AsyncQueueHasRoom
    /\ rd_waiting' = rd_waiting \cup {"producer"}
    /\ UNCHANGED <<rdProducer, rdConsumer, rd_started, rd_queue, rd_done, rd_enqueued,
                   rd_delivered>>
    /\ ReaderFrame

\* lines 84-101: the next newline of the chunk completes a line, which is
\* pushed under the mutex once the queue has room
AsyncPushLine ==
    /\ rd_profile = "sequential"
    /\ rd_ppc = "scan"
    /\ NextNewline # NPOS
    /\ "producer" \notin rd_waiting
    /\ AsyncQueueHasRoom
    /\ LET line == rd_pending \o SubStr(rd_chunk, rd_scan, NextNewline - rd_scan)
       IN  /\ rd_queue' = Append(rd_queue, line)
           /\ rd_enqueued' = Append(rd_enqueued, line)
    /\ rd_pending' = <<>>
    /\ rd_scan' = NextNewline + 1
    /\ rd_ppc' = "notify"
    /\ UNCHANGED <<rd_off, rd_chunk, rdConsumer, rd_started, rd_waiting, rd_done,
                   rd_delivered>>
    /\ ReaderFrame

\* lines 102-103: cv_.notify_one() after the unlock, and the scan goes on
AsyncNotify ==
    /\ rd_profile = "sequential"
    /\ rd_ppc = "notify"
    /\ rd_waiting' \in NotifyOne(rd_waiting)
    /\ rd_ppc' = "scan"
    /\ UNCHANGED <<rd_off, rd_chunk, rd_scan, rd_pending, rdConsumer, rd_started, rd_queue,
                   rd_done, rd_enqueued, rd_delivered>>
    /\ ReaderFrame

\* lines 106-108: the rest of the chunk is kept for the next read
AsyncChunkEnd ==
    /\ rd_profile = "sequential"
    /\ rd_ppc = "scan"
    /\ NextNewline = NPOS
    /\ rd_pending' = rd_pending \o SubStr(rd_chunk, rd_scan, Len(rd_chunk) - rd_scan)
    /\ rd_ppc' = "read"
    /\ UNCHANGED <<rd_off, rd_chunk, rd_scan, rdConsumer, rd_started, rd_waiting, rd_queue,
                   rd_done, rd_enqueued, rd_delivered>>
    /\ ReaderFrame

\* lines 111-123: the final line is pushed when it is not empty
AsyncFlush ==
    /\ rd_profile = "sequential"
    /\ rd_ppc = "flush"
    /\ IF rd_pending # <<>>
       THEN /\ "producer" \notin rd_waiting
            /\ AsyncQueueHasRoom
            /\ rd_queue' = Append(rd_queue, rd_pending)
            /\ rd_enqueued' = Append(rd_enqueued, rd_pending)
            /\ rd_pending' = <<>>
            /\ rd_ppc' = "notify_last"
       ELSE /\ rd_ppc' = "signal"
            /\ UNCHANGED <<rd_queue, rd_enqueued, rd_pending>>
    /\ UNCHANGED <<rd_off, rd_chunk, rd_scan, rdConsumer, rd_started, rd_waiting, rd_done,
                   rd_delivered>>
    /\ ReaderFrame

\* lines 123-124: cv_.notify_one() after the unlock of the final push
AsyncNotifyLast ==
    /\ rd_profile = "sequential"
    /\ rd_ppc = "notify_last"
    /\ rd_waiting' \in NotifyOne(rd_waiting)
    /\ rd_ppc' = "signal"
    /\ UNCHANGED <<rd_off, rd_chunk, rd_scan, rd_pending, rdConsumer, rd_started, rd_queue,
                   rd_done, rd_enqueued, rd_delivered>>
    /\ ReaderFrame

\* lines 128-131: done_ = true and cv_.notify_all() under the mutex, and the
\* thread function returns
AsyncSignalDone ==
    /\ rd_profile = "sequential"
    /\ rd_ppc = "signal"
    /\ rd_done' = TRUE
    /\ rd_waiting' = NotifyAll(rd_waiting)
    /\ rd_ppc' = "exit"
    /\ UNCHANGED <<rd_off, rd_chunk, rd_scan, rd_pending, rdConsumer, rd_started,
                   rd_queue, rd_enqueued, rd_delivered>>
    /\ ReaderFrame

\* cv_.wait of line 30 with a false predicate: the consumer gives up the
\* mutex and blocks until it is notified
AsyncConsumerWait ==
    /\ rd_profile = "sequential"
    /\ rd_cpc = "get_line"
    /\ "consumer" \notin rd_waiting
    /\ ~AsyncGetLineReady
    /\ rd_waiting' = rd_waiting \cup {"consumer"}
    /\ UNCHANGED <<rdProducer, rdConsumer, rd_started, rd_queue, rd_done, rd_enqueued,
                   rd_delivered>>
    /\ ReaderFrame

\* AsyncLineReader::get_line past its wait: the pop with its notify_one, or
\* the end of stream
AsyncGetLine ==
    /\ rd_profile = "sequential"
    /\ rd_cpc = "get_line"
    /\ "consumer" \notin rd_waiting
    /\ AsyncGetLineReady
    /\ IF rd_queue # <<>>
       THEN /\ rd_line' = Head(rd_queue)
            /\ rd_queue' = Tail(rd_queue)
            /\ rd_delivered' = Append(rd_delivered, Head(rd_queue))
            /\ rd_waiting' \in NotifyOne(rd_waiting)
            /\ rd_cpc' = "line"
       ELSE /\ rd_cpc' = "eos"
            /\ UNCHANGED <<rd_line, rd_queue, rd_delivered, rd_waiting>>
    /\ UNCHANGED <<rdProducer, is_first_emitted, rd_futures, rd_container, rd_started,
                   rd_done, rd_enqueued>>
    /\ ReaderFrame

\* ParallelLineReader::get_line lines 33-39: the reader thread is started on
\* the first call
ParallelGetLineEnter ==
    /\ rd_profile = "parallel"
    /\ rd_cpc = "get_line"
    /\ rd_started' = TRUE
    /\ rd_cpc' = "try_dequeue"
    /\ UNCHANGED <<rdProducer, rd_line, is_first_emitted, rd_futures, rd_container,
                   rd_waiting, rd_queue, rd_done, rd_enqueued, rd_delivered>>
    /\ ReaderFrame

\* lines 43-45: if (queue_.try_dequeue(line)) return true;
ParallelTryDequeue ==
    /\ rd_profile = "parallel"
    /\ rd_cpc = "try_dequeue"
    /\ IF rd_queue # <<>>
       THEN /\ rd_line' = Head(rd_queue)
            /\ rd_queue' = Tail(rd_queue)
            /\ rd_delivered' = Append(rd_delivered, Head(rd_queue))
            /\ rd_cpc' = "line"
       ELSE /\ rd_cpc' = "check_done"
            /\ UNCHANGED <<rd_line, rd_queue, rd_delivered>>
    /\ UNCHANGED <<rdProducer, is_first_emitted, rd_futures, rd_container, rd_started,
                   rd_waiting, rd_done, rd_enqueued>>
    /\ ReaderFrame

\* lines 47-50: done_ is read; not done yields and tries again
ParallelCheckDone ==
    /\ rd_profile = "parallel"
    /\ rd_cpc = "check_done"
    /\ rd_cpc' = IF rd_done THEN "try_last" ELSE "try_dequeue"
    /\ UNCHANGED <<rdProducer, rd_line, is_first_emitted, rd_futures, rd_container,
                   rd_started, rd_waiting, rd_queue, rd_done, rd_enqueued, rd_delivered>>
    /\ ReaderFrame

\* line 48: return queue_.try_dequeue(line); false leaves the reading loop of
\* parse_insert_lines for its final drain
ParallelTryLast ==
    /\ rd_profile = "parallel"
    /\ rd_cpc = "try_last"
    /\ IF rd_queue # <<>>
       THEN /\ rd_line' = Head(rd_queue)
            /\ rd_queue' = Tail(rd_queue)
            /\ rd_delivered' = Append(rd_delivered, Head(rd_queue))
            /\ rd_cpc' = "line"
       ELSE /\ rd_cpc' = "drain"
            /\ UNCHANGED <<rd_line, rd_queue, rd_delivered>>
    /\ UNCHANGED <<rdProducer, is_first_emitted, rd_futures, rd_container, rd_started,
                   rd_waiting, rd_done, rd_enqueued>>
    /\ ReaderFrame

\* ParallelLineReader::read_lines lines 109-120: the backpressure loop lets
\* the read start only while the queue is not above its mark; the read ends
\* the stream, throws, or hands a stripe to process_chunk_data
ParallelRead ==
    /\ rd_profile = "parallel"
    /\ rd_started
    /\ rd_ppc = "read"
    /\ Len(rd_queue) <= ParallelMaxQueueSize
    /\ IF rd_off = rd_fail_at
       THEN /\ rd_ppc' = "signal"
            /\ UNCHANGED <<rd_off, rd_chunk, rd_scan>>
       ELSE IF rd_off = Len(rd_file)
            THEN /\ rd_ppc' = "flush"
                 /\ UNCHANGED <<rd_off, rd_chunk, rd_scan>>
            ELSE \E n \in ReadSizes :
                    /\ rd_chunk' = SubStr(rd_file, rd_off, n)
                    /\ rd_off' = rd_off + n
                    /\ rd_scan' = 0
                    /\ rd_ppc' = "scan"
    /\ UNCHANGED <<rd_pending, rdConsumer, rd_started, rd_waiting, rd_queue, rd_done,
                   rd_enqueued, rd_delivered>>
    /\ ReaderFrame

\* process_chunk_data lines 163-177: a newline completes a line, enqueued at once
ParallelEnqueueLine ==
    /\ rd_profile = "parallel"
    /\ rd_ppc = "scan"
    /\ NextNewline # NPOS
    /\ LET line == rd_pending \o SubStr(rd_chunk, rd_scan, NextNewline - rd_scan)
       IN  /\ rd_queue' = Append(rd_queue, line)
           /\ rd_enqueued' = Append(rd_enqueued, line)
    /\ rd_pending' = <<>>
    /\ rd_scan' = NextNewline + 1
    /\ UNCHANGED <<rd_ppc, rd_off, rd_chunk, rdConsumer, rd_started, rd_waiting, rd_done,
                   rd_delivered>>
    /\ ReaderFrame

\* process_chunk_data lines 164-167: no newline left, the rest is kept
ParallelChunkEnd ==
    /\ rd_profile = "parallel"
    /\ rd_ppc = "scan"
    /\ NextNewline = NPOS
    /\ rd_pending' = rd_pending \o SubStr(rd_chunk, rd_scan, Len(rd_chunk) - rd_scan)
    /\ rd_ppc' = "read"
    /\ UNCHANGED <<rd_off, rd_chunk, rd_scan, rdConsumer, rd_started, rd_waiting,
                   rd_queue, rd_done,
                   rd_enqueued, rd_delivered>>
    /\ ReaderFrame

\* an end of the stream that drops what follows the last newline
ParallelFlushDropsPartialLine ==
    /\ rd_profile = "parallel"
    /\ rd_ppc = "flush"
    /\ rd_pending' = <<>>
    /\ rd_ppc' = "signal"
    /\ UNCHANGED <<rd_off, rd_chunk, rd_scan, rdConsumer, rd_started, rd_waiting,
                   rd_queue, rd_enqueued, rd_done, rd_delivered>>
    /\ ReaderFrame

\* read_lines lines 122-124: the final line is enqueued when it is not empty
ParallelFlush ==
    /\ rd_profile = "parallel"
    /\ rd_ppc = "flush"
    /\ IF rd_pending # <<>>
       THEN /\ rd_queue' = Append(rd_queue, rd_pending)
            /\ rd_enqueued' = Append(rd_enqueued, rd_pending)
            /\ rd_pending' = <<>>
       ELSE UNCHANGED <<rd_queue, rd_enqueued, rd_pending>>
    /\ rd_ppc' = "signal"
    /\ UNCHANGED <<rd_off, rd_chunk, rd_scan, rdConsumer, rd_started, rd_waiting,
                   rd_done, rd_delivered>>
    /\ ReaderFrame

\* read_lines line 132: done_.store(true)
ParallelSignalDone ==
    /\ rd_profile = "parallel"
    /\ rd_ppc = "signal"
    /\ rd_done' = TRUE
    /\ rd_ppc' = "exit"
    /\ UNCHANGED <<rd_off, rd_chunk, rd_scan, rd_pending, rdConsumer, rd_started,
                   rd_waiting, rd_queue, rd_enqueued, rd_delivered>>
    /\ ReaderFrame

(***************************************************************************)
(* DataLoaderBase::parse_insert_lines.                                     *)
(***************************************************************************)
\* the on_result handlers of the three loaders insert the batch
OnResult(container, res) == container \o res

\* the on_first handlers of PageLoader and LinkLoader reserve and insert the
\* batch; LinkTargetLoader passes none, the overload supplies an empty one
OnFirst(loader, container, res) ==
    IF loader \in {"pages", "links"} THEN container \o res ELSE container

\* a dispatch that gives the first result to on_first only
EmitResultFirstOnly(loader, first, container, res) ==
    IF first THEN OnFirst(loader, container, res) ELSE OnResult(container, res)

\* lines 121-125 and 94-98: on_first for the first result, on_result for
\* every result
EmitResult(loader, first, container, res) ==
    OnResult(IF first THEN OnFirst(loader, container, res) ELSE container, res)

\* lines 118-126, sequential build: filter, parse, dispatch
ParseInsertLine ==
    /\ rd_profile = "sequential"
    /\ rd_cpc = "line"
    /\ IF StartsWithInsert(rd_line)
       THEN /\ rd_container' = EmitResult(rd_loader, is_first_emitted, rd_container,
                                          ParseFn(rd_line))
            /\ is_first_emitted' = FALSE
       ELSE UNCHANGED <<rd_container, is_first_emitted>>
    /\ rd_cpc' = "get_line"
    /\ UNCHANGED <<rdProducer, rd_line, rd_futures, rd_started, rd_waiting, rd_queue,
                   rd_done, rd_enqueued, rd_delivered>>
    /\ ReaderFrame

\* lines 104-113, parallel build: filter, hand the line to the pool, and
\* drain the oldest future when more than 2 * max_concurrent are queued
SubmitInsertLine ==
    /\ rd_profile = "parallel"
    /\ rd_cpc = "line"
    /\ IF StartsWithInsert(rd_line)
       THEN LET queued == Append(rd_futures, ParseFn(rd_line))
            IN  IF Len(queued) > 2 * MaxConcurrent
                THEN /\ rd_futures' = Tail(queued)
                     /\ rd_container' = EmitResult(rd_loader, is_first_emitted,
                                                   rd_container, Head(queued))
                     /\ is_first_emitted' = FALSE
                ELSE /\ rd_futures' = queued
                     /\ UNCHANGED <<rd_container, is_first_emitted>>
       ELSE UNCHANGED <<rd_futures, rd_container, is_first_emitted>>
    /\ rd_cpc' = "get_line"
    /\ UNCHANGED <<rdProducer, rd_line, rd_started, rd_waiting, rd_queue, rd_done,
                   rd_enqueued, rd_delivered>>
    /\ ReaderFrame

\* lines 114-116, parallel build: while (drain_one()) {}
FinalDrain ==
    /\ rd_profile = "parallel"
    /\ rd_cpc = "drain"
    /\ IF rd_futures # <<>>
       THEN /\ rd_futures' = Tail(rd_futures)
            /\ rd_container' = EmitResult(rd_loader, is_first_emitted, rd_container,
                                          Head(rd_futures))
            /\ is_first_emitted' = FALSE
            /\ UNCHANGED rd_cpc
       ELSE /\ rd_cpc' = "eos"
            /\ UNCHANGED <<rd_futures, rd_container, is_first_emitted>>
    /\ UNCHANGED <<rdProducer, rd_line, rd_started, rd_waiting, rd_queue, rd_done,
                   rd_enqueued, rd_delivered>>
    /\ ReaderFrame

\* the files a reader is run on: every file of at most MaxFileLen characters,
\* a file of more lines than either queue holds, and a file of more INSERT
\* INTO lines than futures are kept
FileChars == {"I", "x", "\n"}

RECURSIVE Repeat(_, _)
Repeat(s, n) == IF n = 0 THEN <<>> ELSE s \o Repeat(s, n - 1)

ManyLinesFile == Repeat(<<"\n">>, ParallelMaxQueueSize + 2)

ManyInsertsFile == Repeat(<<"I", "x", "\n">>, 2 * MaxConcurrent + 2)

Files == SeqsUpTo(FileChars, MaxFileLen) \cup {ManyLinesFile, ManyInsertsFile}

RdIdle ==
    /\ rd_profile = "sequential"
    /\ rd_loader = "pages"
    /\ rd_file = <<>>
    /\ rd_open_ok = TRUE
    /\ rd_fail_at = NoFailure
    /\ rd_started = FALSE
    /\ rd_ppc = "exit"
    /\ rd_off = 0
    /\ rd_chunk = <<>>
    /\ rd_scan = 0
    /\ rd_pending = <<>>
    /\ rd_queue = <<>>
    /\ rd_done = FALSE
    /\ rd_waiting = {}
    /\ rd_cpc = "idle"
    /\ rd_line = <<>>
    /\ is_first_emitted = TRUE
    /\ rd_futures = <<>>
    /\ rd_container = <<>>
    /\ rd_enqueued = <<>>
    /\ rd_delivered = <<>>

(***************************************************************************)
(* The loaders.  A dump file is a sequence of lines; a line is an INSERT   *)
(* INTO line with its rows or some other line.  The rows are taken as      *)
(* extract_tuples and SQLTupleParser deliver them.                         *)
(***************************************************************************)
\* std::unique_ptr<Hashmap<K, V>>: nullptr, or the map it owns
NullPtr == <<>>

MakeUnique(map) == <<map>>

Deref(ptr) == ptr[1]

EmptyMap == [k \in {} |-> 0]

\* Hashmap::emplace: an existing key keeps its value
Emplace(map, k, v) == IF k \in DOMAIN map THEN map ELSE map @@ (k :> v)

\* a filter that lets every namespace pass
AnyNamespace(row) == TRUE

\* parse_line: if (namespace != 0) continue;
IsMainNamespace(row) == row.ns = 0

\* PageLoader::parse_line: the (page_id, Page) pairs of the main namespace
ParsePageLine(line) ==
    LET main == SelectSeq(line.rows, IsMainNamespace)
    IN  [i \in 1..Len(main) |-> [page_id |-> main[i].id, page_title |-> main[i].title]]

\* LinkTargetLoader::parse_line: the (lt_id, lt_title) pairs of the main namespace
ParseLinktargetLine(line) ==
    LET main == SelectSeq(line.rows, IsMainNamespace)
    IN  [i \in 1..Len(main) |-> [lt_id |-> main[i].id, lt_title |-> main[i].title]]

\* LinkLoader::parse_line: the (page_from_id, link_target_id) pairs whose
\* source is in the main namespace
ParsePagelinksLine(line) ==
    LET main == SelectSeq(line.rows, IsMainNamespace)
    IN  [i \in 1..Len(main) |->
            [page_from_id |-> main[i].id, link_target_id |-> main[i].target]]

NotFound == [found |-> FALSE, index |-> 0]

\* a lookup that returns the position counted from one
FindIndexOneBased(ptr, key) ==
    IF ptr = NullPtr THEN NotFound
    ELSE IF key \in DOMAIN Deref(ptr)
         THEN [found |-> TRUE, index |-> Deref(ptr)[key] + 1]
         ELSE NotFound

\* PageLoader::find_page_index_by_id / find_page_index_by_title and
\* LinkTargetLoader::find_page_index_by_linktarget_id
FindIndex(ptr, key) ==
    IF ptr = NullPtr THEN NotFound
    ELSE IF key \in DOMAIN Deref(ptr)
         THEN [found |-> TRUE, index |-> Deref(ptr)[key]]
         ELSE NotFound

\* an insert_pages that takes the index after the page was appended
RECURSIVE InsertPagesIndexAfterPush(_, _)
InsertPagesIndexAfterPush(st, batch) ==
    IF batch = <<>> THEN st
    ELSE LET page == Head(batch)
             index == Len(st.pages) + 1
         IN  InsertPagesIndexAfterPush(
                 [pages  |-> Append(st.pages, page),
                  ids    |-> Emplace(st.ids, page.page_id, index),
                  titles |-> Emplace(st.titles, page.page_title, index)],
                 Tail(batch))

\* PageLoader::insert_pages on st = [pages, ids, titles]
RECURSIVE InsertPages(_, _)
InsertPages(st, batch) ==
    IF batch = <<>> THEN st
    ELSE LET page == Head(batch)
             index == Len(st.pages)
         IN  InsertPages([pages  |-> Append(st.pages, page),
                          ids    |-> Emplace(st.ids, page.page_id, index),
                          titles |-> Emplace(st.titles, page.page_title, index)],
                         Tail(batch))

\* a loop that leaves a title that is not found uncounted
RECURSIVE MapLinktargetsMissUncounted(_, _, _)
MapLinktargetsMissUncounted(st, batch, titles) ==
    IF batch = <<>> THEN st
    ELSE LET hit == FindIndex(titles, Head(batch).lt_title)
         IN  MapLinktargetsMissUncounted(
                 IF hit.found
                 THEN [map   |-> Emplace(st.map, Head(batch).lt_id, hit.index),
                       stats |-> [st.stats EXCEPT !.mapped = @ + 1]]
                 ELSE st,
                 Tail(batch), titles)

\* the loop of LinkTargetLoader::insert_linktargets on st = [map, stats]
RECURSIVE MapLinktargets(_, _, _)
MapLinktargets(st, batch, titles) ==
    IF batch = <<>> THEN st
    ELSE LET hit == FindIndex(titles, Head(batch).lt_title)
         IN  MapLinktargets(
                 IF hit.found
                 THEN [map   |-> Emplace(st.map, Head(batch).lt_id, hit.index),
                       stats |-> [st.stats EXCEPT !.mapped = @ + 1]]
                 ELSE [map   |-> st.map,
                       stats |-> [st.stats EXCEPT !.title_misses = @ + 1]],
                 Tail(batch), titles)

\* LinkTargetLoader::insert_linktargets
InsertLinktargets(st, batch, titles) ==
    MapLinktargets([st EXCEPT !.stats.parsed = @ + Len(batch)], batch, titles)

\* a loop that counts a missing link target only when the page was found
RECURSIVE ResolveLinksOneMissPerRow(_, _, _, _)
ResolveLinksOneMissPerRow(st, batch, ids, targets) ==
    IF batch = <<>> THEN st
    ELSE LET from == FindIndex(ids, Head(batch).page_from_id)
             to   == FindIndex(targets, Head(batch).link_target_id)
         IN  ResolveLinksOneMissPerRow(
                 IF from.found /\ to.found
                 THEN [links |-> Append(st.links, Link(from.index, to.index)),
                       stats |-> [st.stats EXCEPT !.inserted = @ + 1]]
                 ELSE [links |-> st.links,
                       stats |-> [st.stats EXCEPT
                                     !.from_misses = IF from.found THEN @ ELSE @ + 1,
                                     !.target_misses =
                                         IF from.found /\ ~to.found THEN @ + 1 ELSE @]],
                 Tail(batch), ids, targets)

\* the loop of LinkLoader::insert_links on st = [links, stats]
RECURSIVE ResolveLinks(_, _, _, _)
ResolveLinks(st, batch, ids, targets) ==
    IF batch = <<>> THEN st
    ELSE LET from == FindIndex(ids, Head(batch).page_from_id)
             to   == FindIndex(targets, Head(batch).link_target_id)
         IN  ResolveLinks(
                 IF from.found /\ to.found
                 THEN [links |-> Append(st.links, Link(from.index, to.index)),
                       stats |-> [st.stats EXCEPT !.inserted = @ + 1]]
                 ELSE [links |-> st.links,
                       stats |-> [st.stats EXCEPT
                                     !.from_misses = IF from.found THEN @ ELSE @ + 1,
                                     !.target_misses = IF to.found THEN @ ELSE @ + 1]],
                 Tail(batch), ids, targets)

\* LinkLoader::insert_links
InsertLinks(st, batch, ids, targets) ==
    ResolveLinks([st EXCEPT !.stats.parsed = @ + Len(batch)], batch, ids, targets)

\* parse_insert_lines lines 121-125 with the handlers of load_page_table:
\* on_first inserts the first result, on_result inserts every result
EmitPages(first, st, res) ==
    InsertPages(IF first THEN InsertPages(st, res) ELSE st, res)

\* with the handler of load_linktarget_table: no on_first is passed, the
\* overload supplies an empty one, and on_result inserts every result
EmitLinktargets(first, st, res, titles) ==
    InsertLinktargets(st, res, titles)

\* with the handlers of load_pagelinks_table: on_first inserts the first
\* result, on_result inserts every result
EmitLinks(first, st, res, ids, targets) ==
    InsertLinks(IF first THEN InsertLinks(st, res, ids, targets) ELSE st,
                res, ids, targets)

\* a cleanup that leaves the id lookup alive
KeepLookup(ptr) == ptr

\* PageLoader::destroy_id_lookup and LinkTargetLoader::destroy_linktarget_map
DestroyLookup(ptr) == NullPtr

(***************************************************************************)
(* DataLoaderBase::update_progress and the callbacks of the loader thread. *)
(***************************************************************************)
\* a report that sends the number of records added since the last report
UpdateProgressSendsIncrement(count, reported, elapsed, force) ==
    IF force \/ elapsed THEN count - reported ELSE reported

\* update_progress lines 48-66 with the callback of start_loader_thread:
\* the count is stored into UIState when the call is forced or refresh_rate
\* has elapsed since the last report; reported is the count stored last
UpdateProgress(count, reported, elapsed, force) ==
    IF force \/ elapsed THEN count ELSE reported

(***************************************************************************)
(* The loader thread of start_loader_thread.                               *)
(***************************************************************************)
\* PageLoader::load_page_table lines 47-59: the maps are created
LoadPageTableBegin ==
    /\ loader_pc = "load_page_table"
    /\ page_id_to_index_' = IF page_id_to_index_ = NullPtr
                            THEN MakeUnique(EmptyMap) ELSE page_id_to_index_
    /\ page_title_to_index_' = IF page_title_to_index_ = NullPtr
                               THEN MakeUnique(EmptyMap) ELSE page_title_to_index_
    /\ line_no' = 0
    /\ first_result' = TRUE
    /\ loader_pc' = "page_lines"
    /\ UNCHANGED <<adjacency_list, stage, uiVars, pages_, page_count, linktargetVars,
                   linkVars, graphVars>>
    /\ PipeFrame

\* one round of the loop of parse_insert_lines under load_page_table; elapsed
\* says whether refresh_rate has passed since the last report
LoadPageLine(elapsed) ==
    /\ loader_pc = "page_lines"
    /\ line_no < Len(page_file)
    /\ LET line == page_file[line_no + 1]
           st   == EmitPages(first_result,
                             [pages  |-> pages_,
                              ids    |-> Deref(page_id_to_index_),
                              titles |-> Deref(page_title_to_index_)],
                             ParsePageLine(line))
       IN  IF line.insert
           THEN /\ pages_' = st.pages
                /\ page_id_to_index_' = MakeUnique(st.ids)
                /\ page_title_to_index_' = MakeUnique(st.titles)
                /\ page_count' = UpdateProgress(Len(st.pages), page_count, elapsed, FALSE)
                /\ first_result' = FALSE
           ELSE UNCHANGED <<pageVars, first_result>>
    /\ line_no' = line_no + 1
    /\ UNCHANGED <<adjacency_list, stage, loader_pc, uiVars, linktargetVars, linkVars,
                   graphVars>>
    /\ PipeFrame

\* get_line returns false; the final report is forced and load_page_table
\* returns (lines 76-81)
LoadPageTableReturn ==
    /\ loader_pc = "page_lines"
    /\ line_no = Len(page_file)
    /\ page_count' = UpdateProgress(Len(pages_), page_count, FALSE, TRUE)
    /\ loader_pc' = "store_LoadLinkTargets"
    /\ UNCHANGED <<adjacency_list, stage, uiVars, line_no, first_result, pages_,
                   page_id_to_index_, page_title_to_index_, linktargetVars, linkVars,
                   graphVars>>
    /\ PipeFrame

\* a store that shows the title input whatever stage was meant
StoreStageUserInput(at, value, next) ==
    /\ loader_pc = at
    /\ stage' = "UserInput"
    /\ loader_pc' = next
    /\ UNCHANGED <<adjacency_list, uiVars, loaderVars>>
    /\ PipeFrame

\* state.stage = <value> by the loader thread
StoreStage(at, value, next) ==
    /\ loader_pc = at
    /\ stage' = value
    /\ loader_pc' = next
    /\ UNCHANGED <<adjacency_list, uiVars, loaderVars>>
    /\ PipeFrame

\* DataLoaderManager.cpp line 48
StoreLoadLinkTargets ==
    StoreStage("store_LoadLinkTargets", "LoadLinkTargets", "load_linktarget_table")

\* LinkTargetLoader::load_linktarget_table lines 49-57
LoadLinktargetTableBegin ==
    /\ loader_pc = "load_linktarget_table"
    /\ line_no' = 0
    /\ first_result' = TRUE
    /\ loader_pc' = "linktarget_lines"
    /\ UNCHANGED <<adjacency_list, stage, uiVars, pageVars, linktargetVars, linkVars,
                   graphVars>>
    /\ PipeFrame

\* one round of the loop of parse_insert_lines under load_linktarget_table
LoadLinktargetLine(elapsed) ==
    /\ loader_pc = "linktarget_lines"
    /\ line_no < Len(linktarget_file)
    /\ LET line == linktarget_file[line_no + 1]
           st   == EmitLinktargets(first_result,
                                   [map |-> Deref(linktarget_map_),
                                    stats |-> linktarget_stats],
                                   ParseLinktargetLine(line), page_title_to_index_)
       IN  IF line.insert
           THEN /\ linktarget_map_' = MakeUnique(st.map)
                /\ linktarget_stats' = st.stats
                /\ linktarget_count' = UpdateProgress(Cardinality(DOMAIN st.map),
                                                      linktarget_count, elapsed, FALSE)
                /\ first_result' = FALSE
           ELSE UNCHANGED <<linktargetVars, first_result>>
    /\ line_no' = line_no + 1
    /\ UNCHANGED <<adjacency_list, stage, loader_pc, uiVars, pageVars, linkVars, graphVars>>
    /\ PipeFrame

\* the final report is forced and load_linktarget_table returns;
\* cleanup_after_linktarget_load keeps everything
LoadLinktargetTableReturn ==
    /\ loader_pc = "linktarget_lines"
    /\ line_no = Len(linktarget_file)
    /\ linktarget_count' = UpdateProgress(Cardinality(DOMAIN Deref(linktarget_map_)),
                                          linktarget_count, FALSE, TRUE)
    /\ loader_pc' = "store_LoadLinks"
    /\ UNCHANGED <<adjacency_list, stage, uiVars, line_no, first_result, pageVars,
                   linktarget_map_, linktarget_stats, linkVars, graphVars>>
    /\ PipeFrame

\* DataLoaderManager.cpp line 70
StoreLoadLinks == StoreStage("store_LoadLinks", "LoadLinks", "load_pagelinks_table")

\* LinkLoader::load_pagelinks_table lines 59-63
LoadPagelinksTableBegin ==
    /\ loader_pc = "load_pagelinks_table"
    /\ line_no' = 0
    /\ first_result' = TRUE
    /\ loader_pc' = "pagelinks_lines"
    /\ UNCHANGED <<adjacency_list, stage, uiVars, pageVars, linktargetVars, linkVars,
                   graphVars>>
    /\ PipeFrame

\* one round of the loop of parse_insert_lines under load_pagelinks_table
LoadPagelinksLine(elapsed) ==
    /\ loader_pc = "pagelinks_lines"
    /\ line_no < Len(pagelinks_file)
    /\ LET line == pagelinks_file[line_no + 1]
           st   == EmitLinks(first_result, [links |-> links_, stats |-> link_stats],
                             ParsePagelinksLine(line), page_id_to_index_, linktarget_map_)
       IN  IF line.insert
           THEN /\ links_' = st.links
                /\ link_stats' = st.stats
                /\ link_count' = UpdateProgress(Len(st.links), link_count, elapsed, FALSE)
                /\ first_result' = FALSE
           ELSE UNCHANGED <<linkVars, first_result>>
    /\ line_no' = line_no + 1
    /\ UNCHANGED <<adjacency_list, stage, loader_pc, uiVars, pageVars, linktargetVars,
                   graphVars>>
    /\ PipeFrame

\* the final report is forced and load_pagelinks_table returns
LoadPagelinksTableReturn ==
    /\ loader_pc = "pagelinks_lines"
    /\ line_no = Len(pagelinks_file)
    /\ link_count' = UpdateProgress(Len(links_), link_count, FALSE, TRUE)
    /\ loader_pc' = "cleanup_after_link_load"
    /\ UNCHANGED <<adjacency_list, stage, uiVars, line_no, first_result, pageVars,
                   linktargetVars, links_, link_stats, graphVars>>
    /\ PipeFrame

\* a cleanup after the link load that leaves the link target lookup alive
CleanupAfterLinkLoadKeepsTargets ==
    /\ loader_pc = "cleanup_after_link_load"
    /\ page_id_to_index_' = DestroyLookup(page_id_to_index_)
    /\ loader_pc' = "store_BuildingGraph"
    /\ UNCHANGED <<adjacency_list, stage, uiVars, line_no, first_result, pages_,
                   page_title_to_index_, page_count, linktargetVars, linkVars, graphVars>>
    /\ PipeFrame

\* DataLoaderManager::cleanup_after_link_load
CleanupAfterLinkLoad ==
    /\ loader_pc = "cleanup_after_link_load"
    /\ page_id_to_index_' = DestroyLookup(page_id_to_index_)
    /\ linktarget_map_' = DestroyLookup(linktarget_map_)
    /\ loader_pc' = "store_BuildingGraph"
    /\ UNCHANGED <<adjacency_list, stage, uiVars, line_no, first_result, pages_,
                   page_title_to_index_, page_count, linktarget_stats, linktarget_count,
                   linkVars, graphVars>>
    /\ PipeFrame

\* DataLoaderManager.cpp line 92
StoreBuildingGraph == StoreStage("store_BuildingGraph", "BuildingGraph", "graph_init")

\* an init that builds a new instance at every call
PageGraph_initReplaces(pages, links) ==
    /\ init_calls < MaxInitCalls
    /\ init_calls' = init_calls + 1
    /\ instance' = TRUE
    /\ graph_pages' = pages
    /\ adjacency_list' = BuildAdjacency(Len(pages), links)
    /\ number_of_links' = Len(links)

\* the constructor PageGraph::PageGraph, lines 20-49, up to its closing
\* brace: the pages are moved in, every link is appended to the adjacency
\* list of its page_from and counted
PageGraph_construct(pages, links) ==
    /\ graph_pages' = pages
    /\ adjacency_list' = BuildAdjacency(Len(pages), links)
    /\ number_of_links' = Len(links)

\* PageGraph::init lines 96-102, as its callers see it under the mutex: the
\* instance is made from the pages and the links when there is none
PageGraph_init(pages, links) ==
    /\ init_calls < MaxInitCalls
    /\ init_calls' = init_calls + 1
    /\ IF ~instance
       THEN /\ instance' = TRUE
            /\ PageGraph_construct(pages, links)
       ELSE UNCHANGED <<instance, graph_pages, adjacency_list, number_of_links>>

\* PageGraph::init(move_pages(), move_links()) on the loader thread, up to
\* the end of the constructor: both vectors are moved out of their loaders,
\* the pages into the graph and the links into the constructor's local
\* links_ (line 26), which is the edge list from then on and is still alive
\* when the adjacency list is complete
PageGraphInit ==
    /\ loader_pc = "graph_init"
    /\ init_calls < MaxInitCalls
    /\ init_calls' = init_calls + 1
    /\ IF ~instance
       THEN PageGraph_construct(pages_, links_)
       ELSE UNCHANGED <<graph_pages, adjacency_list, number_of_links>>
    /\ pages_' = <<>>
    /\ loader_pc' = "graph_init_return"
    /\ UNCHANGED <<stage, uiVars, line_no, first_result, page_id_to_index_,
                   page_title_to_index_, page_count, linktargetVars, linkVars, instance>>
    /\ PipeFrame

\* the constructor returns, which destroys its local links_, make_unique's
\* result is assigned to instance, and init returns
PageGraphInitReturn ==
    /\ loader_pc = "graph_init_return"
    /\ links_' = <<>>
    /\ instance' = TRUE
    /\ loader_pc' = "cleanup_after_graph_build"
    /\ UNCHANGED <<adjacency_list, stage, uiVars, line_no, first_result, pageVars,
                   linktargetVars, link_stats, link_count, graph_pages, number_of_links,
                   init_calls>>
    /\ PipeFrame

\* a cleanup after the graph build that also calls destroy_title_lookup
CleanupAfterGraphBuildDestroysTitles ==
    /\ loader_pc = "cleanup_after_graph_build"
    /\ links_' = <<>>
    /\ page_title_to_index_' = DestroyLookup(page_title_to_index_)
    /\ loader_pc' = "store_UserInput"
    /\ UNCHANGED <<adjacency_list, stage, uiVars, line_no, first_result, pages_,
                   page_id_to_index_, page_count, linktargetVars, link_stats, link_count,
                   graphVars>>
    /\ PipeFrame

\* DataLoaderManager::cleanup_after_graph_build: LinkLoader::destroy_links
CleanupAfterGraphBuild ==
    /\ loader_pc = "cleanup_after_graph_build"
    /\ links_' = <<>>
    /\ loader_pc' = "store_UserInput"
    /\ UNCHANGED <<adjacency_list, stage, uiVars, line_no, first_result, pageVars,
                   linktargetVars, link_stats, link_count, graphVars>>
    /\ PipeFrame

\* DataLoaderManager.cpp line 105
StoreUserInput == StoreStage("store_UserInput", "UserInput", "finished")

(***************************************************************************)
(* The UI thread and the download threads.                                 *)
(***************************************************************************)
DumpKinds == {"page", "pagelinks", "linktarget"}

\* lines 273 and 312: all three completion flags are set
AllDownloadsComplete == \A f \in DumpKinds : download_complete[f]

\* create_wiki_select_ui, Return on a wiki that is on disk (lines 187-195).
\* The handler reads on_wiki_selected through a reference to a parameter of
\* create_wiki_select_ui, which has returned: what it finds is not defined,
\* a callable starts the loader thread and an empty one does nothing.
SelectDownloadedWiki(callable) ==
    /\ ui_pc = "idle"
    /\ stage = "WikiSelection"
    /\ stage' = "LoadPages"
    /\ loader_pc' = IF callable THEN "load_page_table" ELSE loader_pc
    /\ UNCHANGED <<adjacency_list, uiVars, loaderVars>>
    /\ PipeFrame

\* create_wiki_select_ui, Return on a wiki that is not on disk (lines 196-199)
SelectRemoteWiki ==
    /\ ui_pc = "idle"
    /\ stage = "WikiSelection"
    /\ stage' = "Download"
    /\ UNCHANGED <<adjacency_list, loader_pc, uiVars, loaderVars>>
    /\ PipeFrame

\* the renderer of create_download_ui up to the call of render_download_ui
\* (lines 284-349): the first rendering starts the downloads or reports that
\* there is nothing to download; once all downloads are complete and
\* on_start_loading is callable, the stage is stored and the loader thread
\* started.  on_start_loading is a copy of the moved-from on_wiki_selected,
\* read through a reference to a parameter of a function that has returned.
RenderDownload(found, callable) ==
    /\ ui_pc = "idle"
    /\ stage = "Download"
    /\ IF ~download_started
       THEN /\ download_started' = TRUE
            /\ downloads_running' = IF found = "urls" THEN DumpKinds ELSE downloads_running
            /\ download_error' = IF found = "no_urls" THEN TRUE ELSE download_error
       ELSE UNCHANGED <<download_started, downloads_running, download_error>>
    /\ IF AllDownloadsComplete /\ callable
       THEN /\ stage' = "LoadPages"
            /\ loader_pc' = "load_page_table"
       ELSE UNCHANGED <<stage, loader_pc>>
    /\ ui_pc' = "render_download_ui"
    /\ UNCHANGED <<adjacency_list, download_complete, loaderVars>>
    /\ PipeFrame

\* render_download_ui lines 273-275
RenderDownloadUi ==
    /\ ui_pc = "render_download_ui"
    /\ stage' = IF AllDownloadsComplete THEN "LoadPages" ELSE stage
    /\ ui_pc' = "idle"
    /\ UNCHANGED <<adjacency_list, loader_pc, download_started, download_error,
                   downloads_running, download_complete, loaderVars>>
    /\ PipeFrame

\* download line 206: config.complete_ptr->store(true)
DownloadFinish(f) ==
    /\ f \in downloads_running
    /\ download_complete' = [download_complete EXCEPT ![f] = TRUE]
    /\ downloads_running' = downloads_running \ {f}
    /\ UNCHANGED <<adjacency_list, stage, loader_pc, ui_pc, download_started,
                   download_error, loaderVars>>
    /\ PipeFrame

\* handle_key_events lines 636-643: a key while the download error is shown
DownloadErrorKey ==
    /\ ui_pc = "idle"
    /\ stage = "Download"
    /\ download_error
    /\ download_error' = FALSE
    /\ stage' = "WikiSelection"
    /\ UNCHANGED <<adjacency_list, loader_pc, ui_pc, download_started, downloads_running,
                   download_complete, loaderVars>>
    /\ PipeFrame

\* handle_search_submit: the search thread is detached and the stage stored.
\* The handler itself tests nothing; the model runs one search thread at a
\* time, so a title is submitted here only when no earlier perform_search is
\* still running.
SearchSubmit ==
    /\ ui_pc = "idle"
    /\ stage = "UserInput"
    /\ search_pc \in {"none", "returned"}
    /\ stage' = "ShowPaths"
    /\ search_pc' = "perform_search"
    /\ UNCHANGED <<adjacency_list, loader_pc, uiVars, loaderVars, is_searching,
                   error_message, found_paths>>
    /\ UNCHANGED <<bfsRun, sqlVars, rdVars, dumpFiles, progVars, poolVars, idxVars>>

\* handle_key_events lines 623-635: a character key on the results clears
\* the titles, the message and the paths and shows the input again, whether
\* or not the search thread has returned
ResultsKey ==
    /\ ui_pc = "idle"
    /\ stage = "ShowPaths"
    /\ stage' = "UserInput"
    /\ error_message' = ""
    /\ found_paths' = <<>>
    /\ UNCHANGED <<adjacency_list, loader_pc, uiVars, loaderVars, search_pc, is_searching>>
    /\ UNCHANGED <<bfsRun, sqlVars, rdVars, dumpFiles, progVars, poolVars, idxVars>>

(***************************************************************************)
(* The search thread of handle_search_submit: perform_search.  A title is  *)
(* a string, 1-based where the model reads its characters.                 *)
(***************************************************************************)
\* std::isspace on the characters the model types
IsSpace(c) == c = " "

\* trim line 40: the offset of the first character that is no space
RECURSIVE SkipSpaces(_, _)
SkipSpaces(string, start) ==
    IF start # Len(string) /\ IsSpace(SubSeq(string, start + 1, start + 1))
    THEN SkipSpaces(string, start + 1)
    ELSE start

\* trim lines 42-44: end-- while end is behind start and on a space
RECURSIVE BackOverSpaces(_, _, _)
BackOverSpaces(string, start, end) ==
    IF (end - 1) - start > 0 /\ IsSpace(SubSeq(string, end, end))
    THEN BackOverSpaces(string, start, end - 1)
    ELSE end - 1

\* trim: the characters from start to end inclusive.  On the empty string the
\* source steps end before begin(); the range it then returns is empty.
Trim(string) ==
    LET start == SkipSpaces(string, 0)
        end   == BackOverSpaces(string, start, Len(string))
    IN  SubSeq(string, start + 1, end + 1)

\* the titles typed into the two input fields
TypedTitles == {"", " A ", "B", "C"}

\* perform_search lines 480-511: the state is reset, the titles are trimmed
\* and looked up; PageGraph::get throws when there is no instance, and the
\* exception leaves the thread
PerformSearch(start_title, end_title) ==
    /\ search_pc = "perform_search"
    /\ LET start_page == Trim(start_title)
           end_page   == Trim(end_title)
           start_idx  == FindIndex(page_title_to_index_, start_page)
           end_idx    == FindIndex(page_title_to_index_, end_page)
           error ==
               IF start_page = "" \/ end_page = ""
               THEN "Please enter both start and end page titles."
               ELSE IF page_title_to_index_ = NullPtr
               THEN "Hmm, page loader not initialized, please create an issue on GitHub if you see this."
               ELSE IF ~start_idx.found
               THEN "Start page not found: '" \o start_page \o "'"
               ELSE IF ~end_idx.found
               THEN "End page not found: '" \o end_page \o "'"
               ELSE ""
       IN  /\ found_paths' = <<>>
           /\ is_searching' = TRUE
           /\ bfs_progress' = Progress(0, 0, 0, 0)
           /\ IF ~instance
              THEN /\ search_pc' = "terminated"
                   /\ error_message' = ""
                   /\ UNCHANGED <<start_index, end_index>>
              ELSE IF error # ""
              THEN /\ search_pc' = "returned"
                   /\ error_message' = error
                   /\ UNCHANGED <<start_index, end_index>>
              ELSE /\ search_pc' = "all_shortest_paths"
                   /\ error_message' = ""
                   /\ start_index' = start_idx.index
                   /\ end_index' = end_idx.index
    /\ UNCHANGED <<adjacency_list, bfs_pc, dist, parents, queue, current_layer,
                   layer_size, layer_explored_count, total_explored_count,
                   path_stack, paths>>
    /\ UNCHANGED <<sqlVars, rdVars, stage, loader_pc, dumpFiles, uiVars, loaderVars,
                   progVars, poolVars, idxVars>>

\* perform_search line 521: graph.all_shortest_paths(state, start_idx, end_idx)
PerformSearchCall ==
    /\ search_pc = "all_shortest_paths"
    /\ AllShortestPathsCall(start_index, end_index)

\* perform_search lines 521-531: the result is stored, the message set when
\* there is no path, is_searching cleared; the locals of the call are gone
PerformSearchReturn ==
    /\ search_pc = "all_shortest_paths"
    /\ bfs_pc = "done"
    /\ found_paths' = paths
    /\ error_message' = IF paths = <<>> THEN "No path found between the given pages."
                                        ELSE error_message
    /\ is_searching' = FALSE
    /\ search_pc' = "returned"
    /\ bfs_pc' = "idle"
    /\ start_index' = 0
    /\ end_index' = 0
    /\ dist' = <<>>
    /\ parents' = <<>>
    /\ queue' = <<>>
    /\ current_layer' = 0
    /\ layer_size' = 0
    /\ layer_explored_count' = 0
    /\ total_explored_count' = 0
    /\ path_stack' = <<>>
    /\ paths' = <<>>
    /\ UNCHANGED <<adjacency_list, bfs_progress>>
    /\ UNCHANGED <<sqlVars, rdVars, stage, loader_pc, dumpFiles, uiVars, loaderVars,
                   progVars, poolVars, idxVars>>

(***************************************************************************)
(* The dump files the pipeline is run on.                                  *)
(***************************************************************************)
TableRow(id, ns, title) == [id |-> id, ns |-> ns, title |-> title]

PagelinksRow(from, ns, target) == [id |-> from, ns |-> ns, target |-> target]

\* a page of another namespace, then the pages A and B of the main namespace
PageRows == <<TableRow(12, 1, "C"), TableRow(10, 0, "A"), TableRow(11, 0, "B")>>

\* a link target of another namespace, then the link target B
LinktargetRows == <<TableRow(97, 1, "A"), TableRow(99, 0, "B")>>

\* a row whose source namespace is not 0 (its ids would resolve to B -> B),
\* then the link A -> B
PagelinksRows == <<PagelinksRow(11, 1, 99), PagelinksRow(10, 0, 99)>>

OtherLine == [insert |-> FALSE, rows |-> <<>>]

InsertLine(rows) == [insert |-> TRUE, rows |-> rows]

RECURSIVE IsSubSeq(_, _)
IsSubSeq(s, t) ==
    IF s = <<>> THEN TRUE
    ELSE IF t = <<>> THEN FALSE
    ELSE IF Head(s) = Head(t) THEN IsSubSeq(Tail(s), Tail(t))
    ELSE IsSubSeq(s, Tail(t))

RECURSIVE RowsOf(_)
RowsOf(file) == IF file = <<>> THEN <<>> ELSE Head(file).rows \o RowsOf(Tail(file))

\* the files that hold some of the rows, each once and in table order, on at
\* most MaxLines INSERT INTO lines of at most MaxRows rows, with or without a
\* leading line that is not an INSERT INTO line
TableFiles(rows) ==
    LET lines  == {InsertLine(r) : r \in SeqsUpTo(SeqRange(rows), MaxRows) \ {<<>>}}
        bodies == {f \in SeqsUpTo(lines, MaxLines) : IsSubSeq(RowsOf(f), rows)}
    IN  bodies \cup {<<OtherLine>> \o f : f \in bodies}

\* the state of the program at the start of main, on empty dump files
PipeConstructed ==
    /\ stage = "WikiSelection"
    /\ ui_pc = "idle"
    /\ download_started = FALSE
    /\ download_error = FALSE
    /\ downloads_running = {}
    /\ download_complete = [f \in DumpKinds |-> FALSE]
    /\ loader_pc = "not_started"
    /\ line_no = 0
    /\ first_result = TRUE
    /\ pages_ = <<>>
    /\ page_id_to_index_ = NullPtr
    /\ page_title_to_index_ = NullPtr
    /\ page_count = 0
    /\ linktarget_map_ = MakeUnique(EmptyMap)
    /\ linktarget_stats = [parsed |-> 0, mapped |-> 0, title_misses |-> 0]
    /\ linktarget_count = 0
    /\ links_ = <<>>
    /\ link_stats = [parsed |-> 0, inserted |-> 0, from_misses |-> 0, target_misses |-> 0]
    /\ link_count = 0
    /\ instance = FALSE
    /\ graph_pages = <<>>
    /\ number_of_links = 0
    /\ init_calls = 0
    /\ search_pc = "none"
    /\ is_searching = FALSE
    /\ error_message = ""
    /\ found_paths = <<>>

PipeIdle ==
    /\ PipeConstructed
    /\ page_file = <<>>
    /\ linktarget_file = <<>>
    /\ pagelinks_file = <<>>

(***************************************************************************)
(* Specifications.                                                         *)
(***************************************************************************)
InitSearch ==
    /\ adjacency_list \in Graphs
    /\ BfsIdle
    /\ SqlIdle
    /\ RdIdle
    /\ PipeIdle
    /\ ProgIdle
    /\ PoolIdle
    /\ IdxIdle

NextSearch ==
    \/ \E s \in 0..NumberOfPages(adjacency_list), e \in 0..NumberOfPages(adjacency_list) :
          AllShortestPathsCall(s, e)
    \/ \E refresh \in BOOLEAN : BfsIteration(refresh)
    \/ BfsQueueEmpty
    \/ BacktrackIteration
    \/ BacktrackReturn

SpecSearch == InitSearch /\ [][NextSearch]_vars

BfsUnused ==
    /\ adjacency_list = BuildAdjacency(0, <<>>)
    /\ BfsIdle

InitParse ==
    /\ BfsUnused
    /\ RdIdle
    /\ PipeIdle
    /\ ProgIdle
    /\ PoolIdle
    /\ IdxIdle
    /\ sql_rows \in RowLists
    /\ sql_line = LineText(sql_rows)
    /\ sql_pc = "line"
    /\ sql_tuples = <<>>
    /\ m_tuple = <<>>
    /\ m_pos = 0
    /\ page_id = 0
    /\ page_namespace = 0
    /\ page_title = <<>>
    /\ sql_pages = <<>>

NextParse ==
    \/ ParseLineCall
    \/ ParseNextTuple
    \/ ParsePageId
    \/ ParseNamespace
    \/ ParseTitle
    \/ ParseRedirect
    \/ ParseLineReturn

SpecParse == InitParse /\ [][NextParse]_vars

\* the constructors: AsyncLineReader starts its thread at once and reports a
\* failed gzopen only in the log; ParallelLineReader throws when the file
\* cannot be opened and starts its thread on the first get_line
InitReader ==
    /\ BfsUnused
    /\ SqlIdle
    /\ PipeIdle
    /\ ProgIdle
    /\ PoolIdle
    /\ IdxIdle
    /\ rd_profile \in {"sequential", "parallel"}
    /\ rd_loader \in {"pages", "linktargets", "links"}
    /\ rd_file \in Files
    /\ rd_open_ok \in IF rd_profile = "sequential" THEN BOOLEAN ELSE {TRUE}
    /\ rd_fail_at \in {NoFailure} \cup (IF Len(rd_file) <= MaxFileLen
                                          THEN 0..Len(rd_file) ELSE {})
    /\ rd_started = (rd_profile = "sequential")
    /\ rd_ppc = "read"
    /\ rd_off = 0
    /\ rd_chunk = <<>>
    /\ rd_scan = 0
    /\ rd_pending = <<>>
    /\ rd_queue = <<>>
    /\ rd_done = FALSE
    /\ rd_waiting = {}
    /\ rd_cpc = "get_line"
    /\ rd_line = <<>>
    /\ is_first_emitted = TRUE
    /\ rd_futures = <<>>
    /\ rd_container = <<>>
    /\ rd_enqueued = <<>>
    /\ rd_delivered = <<>>

NextReader ==
    \/ AsyncRead
    \/ AsyncProducerWait
    \/ AsyncPushLine
    \/ AsyncNotify
    \/ AsyncChunkEnd
    \/ AsyncFlush
    \/ AsyncNotifyLast
    \/ AsyncSignalDone
    \/ AsyncConsumerWait
    \/ AsyncGetLine
    \/ ParseInsertLine
    \/ ParallelGetLineEnter
    \/ ParallelTryDequeue
    \/ ParallelCheckDone
    \/ ParallelTryLast
    \/ ParallelRead
    \/ ParallelEnqueueLine
    \/ ParallelChunkEnd
    \/ ParallelFlush
    \/ ParallelSignalDone
    \/ SubmitInsertLine
    \/ FinalDrain

SpecReader == InitReader /\ [][NextReader]_vars

\* the sequential build: an AsyncLineReader and parse_insert_lines on it
InitSequential ==
    /\ InitReader
    /\ rd_profile = "sequential"

\* the steps of the reader thread, AsyncLineReader::read_lines
ProducerThread ==
    \/ AsyncRead
    \/ AsyncProducerWait
    \/ AsyncPushLine
    \/ AsyncNotify
    \/ AsyncChunkEnd
    \/ AsyncFlush
    \/ AsyncNotifyLast
    \/ AsyncSignalDone

\* the steps of the thread that runs parse_insert_lines and calls get_line
ConsumerThread ==
    \/ AsyncConsumerWait
    \/ AsyncGetLine
    \/ ParseInsertLine

NextSequential == ProducerThread \/ ConsumerThread

\* both threads are scheduled for as long as they can take a step; a thread
\* blocked in cv_.wait can take none until it is notified
SpecSequentialFair ==
    /\ InitSequential
    /\ [][NextSequential]_vars
    /\ WF_vars(ProducerThread)
    /\ WF_vars(ConsumerThread)

\* main: the loaders are constructed, the UI shows the wiki selection, and
\* the dump files are what the disk or the download holds
InitPipe ==
    /\ BfsUnused
    /\ SqlIdle
    /\ RdIdle
    /\ PipeConstructed
    /\ ProgIdle
    /\ PoolIdle
    /\ IdxIdle
    /\ page_file \in TableFiles(PageRows)
    /\ linktarget_file \in TableFiles(LinktargetRows)
    /\ pagelinks_file \in TableFiles(PagelinksRows)

NextPipe ==
    \/ \E callable \in BOOLEAN : SelectDownloadedWiki(callable)
    \/ SelectRemoteWiki
    \/ \E found \in {"urls", "no_urls", "no_prefix"}, callable \in BOOLEAN :
          RenderDownload(found, callable)
    \/ RenderDownloadUi
    \/ \E f \in DumpKinds : DownloadFinish(f)
    \/ DownloadErrorKey
    \/ SearchSubmit
    \/ ResultsKey
    \/ \E start_title \in TypedTitles, end_title \in TypedTitles :
          PerformSearch(start_title, end_title)
    \/ PerformSearchCall
    \/ \E refresh \in BOOLEAN : BfsIteration(refresh)
    \/ BfsQueueEmpty
    \/ BacktrackIteration
    \/ BacktrackReturn
    \/ PerformSearchReturn
    \/ LoadPageTableBegin
    \/ \E elapsed \in BOOLEAN : LoadPageLine(elapsed)
    \/ LoadPageTableReturn
    \/ StoreLoadLinkTargets
    \/ LoadLinktargetTableBegin
    \/ \E elapsed \in BOOLEAN : LoadLinktargetLine(elapsed)
    \/ LoadLinktargetTableReturn
    \/ StoreLoadLinks
    \/ LoadPagelinksTableBegin
    \/ \E elapsed \in BOOLEAN : LoadPagelinksLine(elapsed)
    \/ LoadPagelinksTableReturn
    \/ CleanupAfterLinkLoad
    \/ StoreBuildingGraph
    \/ PageGraphInit
    \/ PageGraphInitReturn
    \/ CleanupAfterGraphBuild
    \/ StoreUserInput

SpecPipe == InitPipe /\ [][NextPipe]_vars

(***************************************************************************)
(* The PageGraph singleton on its own: init from any caller, at any time,  *)
(* and a search on the instance.                                           *)
(***************************************************************************)
\* the page vectors handed to PageGraph::init
PageLists ==
    {<<>>,
     <<[page_id |-> 10, page_title |-> "A"]>>,
     <<[page_id |-> 10, page_title |-> "A"], [page_id |-> 11, page_title |-> "B"]>>,
     <<[page_id |-> 11, page_title |-> "B"], [page_id |-> 10, page_title |-> "A"]>>}

InitGraph ==
    /\ BfsUnused
    /\ SqlIdle
    /\ RdIdle
    /\ PipeIdle
    /\ ProgIdle
    /\ PoolIdle
    /\ IdxIdle

\* PageGraph::init(state, pages, links)
GraphInit(pages, links) ==
    /\ PageGraph_init(pages, links)
    /\ UNCHANGED <<bfsRun, sqlVars, rdVars, stage, loader_pc, dumpFiles, uiVars, line_no,
                   first_result, pageVars, linktargetVars, linkVars, searchVars, progVars, poolVars, idxVars>>

\* PageGraph::get().all_shortest_paths(state, s, e); get throws when there is
\* no instance
GraphSearch(s, e) ==
    /\ instance
    /\ AllShortestPathsCall(s, e)

NextGraph ==
    \/ \E pages \in PageLists :
          \E links \in SeqsUpTo(LinkSet(Len(pages)), MaxLinks) : GraphInit(pages, links)
    \/ \E s \in 0..NumberOfPages(adjacency_list), e \in 0..NumberOfPages(adjacency_list) :
          GraphSearch(s, e)
    \/ \E refresh \in BOOLEAN : BfsIteration(refresh)
    \/ BfsQueueEmpty
    \/ BacktrackIteration
    \/ BacktrackReturn

SpecGraph == InitGraph /\ [][NextGraph]_vars

(***************************************************************************)
(* PageGraph::init on edge lists that no loader produced: the destination  *)
(* of an edge may be the page count, one past the last page.  (A source    *)
(* outside the pages is not enumerated: line 31 then writes outside        *)
(* out_links_count, and nothing is defined about the run from there on.)   *)
(***************************************************************************)
LinkSetPastEnd(n) == {Link(f, t) : f \in 0..(n - 1), t \in 0..n}

NextConstruct ==
    \E pages \in PageLists :
        \E links \in SeqsUpTo(LinkSetPastEnd(Len(pages)), MaxLinks) : GraphInit(pages, links)

SpecConstruct == InitGraph /\ [][NextConstruct]_vars


\* the steps of the loader thread of start_loader_thread
LoaderThread ==
    \/ LoadPageTableBegin
    \/ \E elapsed \in BOOLEAN : LoadPageLine(elapsed)
    \/ LoadPageTableReturn
    \/ StoreLoadLinkTargets
    \/ LoadLinktargetTableBegin
    \/ \E elapsed \in BOOLEAN : LoadLinktargetLine(elapsed)
    \/ LoadLinktargetTableReturn
    \/ StoreLoadLinks
    \/ LoadPagelinksTableBegin
    \/ \E elapsed \in BOOLEAN : LoadPagelinksLine(elapsed)
    \/ LoadPagelinksTableReturn
    \/ CleanupAfterLinkLoad
    \/ StoreBuildingGraph
    \/ PageGraphInit
    \/ PageGraphInitReturn
    \/ CleanupAfterGraphBuild
    \/ StoreUserInput

\* the pipeline with a loader thread that the scheduler keeps running: the
\* thread is detached, never joined, and none of its steps waits for the UI
SpecPipeFair == SpecPipe /\ WF_vars(LoaderThread)

(***************************************************************************)
(* load_pagelinks_table under the steady clock: update_progress with its   *)
(* time stamps.  The container is taken by its size, a batch by the number *)
(* of links insert_links adds for it.                                      *)
(***************************************************************************)
\* a callback that is invoked at every call
CallbackDueAlways(elapsed_ms, force) == TRUE

\* update_progress line 60
CallbackDue(elapsed_ms, force) == force \/ elapsed_ms >= RefreshRate

\* update_progress lines 52-65 for the count and the force flag it is called
\* with: the callback is invoked and last_time is moved when the call is due
update_progress(count, force) ==
    LET elapsed_ms == prog_now - prog_last_time
    IN  IF CallbackDue(elapsed_ms, force)
        THEN /\ prog_calls' = Append(prog_calls,
                                     [count |-> count, at |-> prog_now, force |-> force])
             /\ prog_last_time' = prog_now
        ELSE UNCHANGED <<prog_calls, prog_last_time>>

\* what a step of the timed load leaves alone
ProgFrame == UNCHANGED <<bfsVars, sqlVars, rdVars, pipeVars, poolVars, idxVars>>

\* the steady clock advances
ProgTick ==
    /\ prog_pc = "lines"
    /\ prog_now < MaxTime
    /\ prog_now' = prog_now + 1
    /\ UNCHANGED <<prog_pc, prog_batches, prog_first, prog_size, prog_start_time,
                   prog_last_time, prog_calls>>
    /\ ProgFrame

\* one INSERT INTO line of parse_insert_lines under load_pagelinks_table: the
\* first result goes to on_first (lines 71-75) and then, like every result,
\* to on_result (lines 67-70)
ProgOnResult ==
    /\ prog_pc = "lines"
    /\ prog_batches # <<>>
    /\ LET inserted == Head(prog_batches)
           after_first == IF prog_first THEN prog_size + inserted ELSE prog_size
           size == after_first + inserted
       IN  /\ prog_size' = size
           /\ update_progress(size, FALSE)
    /\ prog_first' = FALSE
    /\ prog_batches' = Tail(prog_batches)
    /\ UNCHANGED <<prog_pc, prog_now, prog_start_time>>
    /\ ProgFrame

\* get_line returned false: the forced call of line 77, and the return
ProgReturn ==
    /\ prog_pc = "lines"
    /\ prog_batches = <<>>
    /\ update_progress(prog_size, TRUE)
    /\ prog_pc' = "returned"
    /\ UNCHANGED <<prog_batches, prog_first, prog_size, prog_now, prog_start_time>>
    /\ ProgFrame

\* load_pagelinks_table lines 59-63 on an empty links_: start_time is read
\* from the clock and last_time starts as start_time
InitProgress ==
    /\ BfsUnused
    /\ SqlIdle
    /\ RdIdle
    /\ PipeIdle
    /\ PoolIdle
    /\ IdxIdle
    /\ prog_pc = "lines"
    /\ prog_batches \in SeqsUpTo(0..MaxBatch, MaxBatches)
    /\ prog_first = TRUE
    /\ prog_size = 0
    /\ prog_now \in 0..1
    /\ prog_start_time = prog_now
    /\ prog_last_time = prog_start_time
    /\ prog_calls = <<>>

NextProgress ==
    \/ ProgTick
    \/ ProgOnResult
    \/ ProgReturn

SpecProgress == InitProgress /\ [][NextProgress]_vars

(***************************************************************************)
(* Graph distance and shortest paths, defined without the search.          *)
(***************************************************************************)
Successors(adj, S) == UNION {SeqRange(adj[u]) : u \in S}

RECURSIVE LayerDistance(_, _, _, _, _)
LayerDistance(adj, frontier, seen, t, k) ==
    IF t \in frontier THEN k
    ELSE LET next == Successors(adj, frontier) \ seen
         IN  IF next = {} THEN -1
             ELSE LayerDistance(adj, next, seen \cup next, t, k + 1)

\* the minimum number of edges of a walk from s to t, -1 when there is none
MinDistance(adj, s, t) == LayerDistance(adj, {s}, {s}, t, 0)

\* the walks of k edges that start at s
RECURSIVE WalksFrom(_, _, _)
WalksFrom(adj, s, k) ==
    IF k = 0 THEN {<<s>>}
    ELSE UNION {{Append(w, v) : v \in SeqRange(adj[Last(w)])} :
                w \in WalksFrom(adj, s, k - 1)}

IsWalk(adj, p) == \A j \in 1..(Len(p) - 1) : p[j + 1] \in SeqRange(adj[p[j]])

\* every minimum-length path from s to t
AllMinPaths(adj, s, t) ==
    LET d == MinDistance(adj, s, t)
    IN  IF d < 0 THEN {}
        ELSE {w \in WalksFrom(adj, s, d) : Last(w) = t}

InRangeQuery ==
    /\ start_index < NumberOfPages(adjacency_list)
    /\ end_index < NumberOfPages(adjacency_list)

\* C1: every path all_shortest_paths returns starts at start_index, ends at
\* end_index, follows edges of the adjacency list, and has as many edges as
\* the minimum graph distance from start_index to end_index.
C1_ReturnedPathsAreShortestWalks ==
    \A i \in 1..Len(paths) :
        LET p == paths[i]
        IN  /\ InRangeQuery
            /\ Len(p) >= 1
            /\ p[1] = start_index
            /\ Last(p) = end_index
            /\ IsWalk(adjacency_list, p)
            /\ Len(p) - 1 = MinDistance(adjacency_list, start_index, end_index)

C1_Witness ==
    /\ bfs_pc = "done"
    /\ Len(paths) >= 1
    /\ Len(paths[1]) >= 3

\* C2: the set of paths all_shortest_paths returns is the set of all
\* minimum-length paths from start_index to end_index.
C2_ReturnsEveryShortestPath ==
    (bfs_pc = "done" /\ InRangeQuery)
        => SeqRange(paths) = AllMinPaths(adjacency_list, start_index, end_index)

C2_Witness ==
    /\ bfs_pc = "done"
    /\ Cardinality(SeqRange(paths)) >= 2

\* C3: the list all_shortest_paths returns never holds two equal paths, also
\* when the adjacency list holds the same edge more than once.
C3_NoPathReturnedTwice ==
    bfs_pc = "done" => \A i, j \in 1..Len(paths) : paths[i] = paths[j] => i = j

(***************************************************************************)
(* String literals as the documentation describes them, without the code.  *)
(***************************************************************************)
\* every backslash of the literal is followed by a backslash or a quote, and
\* every quote of the literal follows such a backslash
RECURSIVE OnlyQuoteAndBackslashEscapes(_)
OnlyQuoteAndBackslashEscapes(body) ==
    IF body = <<>> THEN TRUE
    ELSE IF Head(body) = "\\"
         THEN /\ Len(body) >= 2
              /\ body[2] \in {"\\", "'"}
              /\ OnlyQuoteAndBackslashEscapes(SubSeq(body, 3, Len(body)))
         ELSE /\ Head(body) # "'"
              /\ OnlyQuoteAndBackslashEscapes(Tail(body))

\* \\ is \, \' is ', an underscore is a space
RECURSIVE SqlUnescape(_)
SqlUnescape(body) ==
    IF body = <<>> THEN <<>>
    ELSE IF Head(body) = "\\"
         THEN <<body[2]>> \o SqlUnescape(SubSeq(body, 3, Len(body)))
         ELSE <<IF Head(body) = "_" THEN " " ELSE Head(body)>> \o SqlUnescape(Tail(body))

\* C6: next_string ends a literal at the next unescaped quote and decodes \\
\* to \ and \' to ': a main-namespace page tuple whose title literal uses only
\* these two escapes is accepted with the decoded title, as is the documented
\* tuple (7,0,'O\'Neil\\s',0), whose title is O'Neil\s.
C6_LiteralEndsAtUnescapedQuote ==
    (/\ sql_pc = "done"
     /\ Len(sql_rows) = 1
     /\ sql_rows[1].id # <<"a">>
     /\ sql_rows[1].ns = <<"0">>
     /\ sql_rows[1].redirect # <<>>
     /\ OnlyQuoteAndBackslashEscapes(sql_rows[1].body))
        => sql_pages = <<PageRow(DecimalValue(sql_rows[1].id),
                                 SqlUnescape(sql_rows[1].body),
                                 sql_rows[1].redirect # <<"0">>)>>

\* get_line has returned false: parse_insert_lines has left its reading loop
GetLineReturnedFalse == rd_cpc \in {"drain", "eos"}

\* C9: in both readers get_line returns false only when the producer has
\* signalled completion and the queue is empty, so that every line the
\* producer enqueued has been delivered.
C9_EndOfStreamOnlyWhenDoneAndEmpty ==
    GetLineReturnedFalse =>
        /\ rd_done
        /\ rd_queue = <<>>
        /\ rd_delivered = rd_enqueued

\* a reader reports the end of the stream after it delivered several lines
C9_Witness ==
    /\ GetLineReturnedFalse
    /\ Len(rd_delivered) >= 2
    /\ rd_enqueued = rd_delivered

\* the newline-delimited lines of a file; a final line without a newline
\* counts when it is not empty
RECURSIVE FileLines(_, _)
FileLines(file, line) ==
    IF file = <<>>
    THEN IF line = <<>> THEN <<>> ELSE <<line>>
    ELSE IF Head(file) = "\n"
         THEN <<line>> \o FileLines(Tail(file), <<>>)
         ELSE FileLines(Tail(file), Append(line, Head(file)))

\* the records of the INSERT INTO lines, in the order of the lines
RECURSIVE RecordsInFileOrder(_)
RecordsInFileOrder(lines) ==
    IF lines = <<>>
    THEN <<>>
    ELSE (IF StartsWithInsert(Head(lines)) THEN ParseFn(Head(lines)) ELSE <<>>)
         \o RecordsInFileOrder(Tail(lines))

\* the file was opened and decompressed without an error, and
\* parse_insert_lines has returned
LoadedWholeFile == rd_cpc = "eos" /\ rd_open_ok /\ rd_fail_at = NoFailure

\* C10: the lines get_line returned are the lines of the file, each once and
\* in order, and the records of the INSERT INTO lines were applied to the
\* loader's container in that order.
C10_ProcessedInFileOrder ==
    LoadedWholeFile =>
        /\ rd_delivered = FileLines(rd_file, <<>>)
        /\ rd_container = RecordsInFileOrder(rd_delivered)

\* the rows of a dump file that its loader keeps
MainRows(file) == SelectSeq(RowsOf(file), IsMainNamespace)

\* load_pagelinks_table has returned and both lookups are still alive
PagelinksLoaded == loader_pc = "cleanup_after_link_load"

\* one edge per row whose page and link target are found, in row order
RECURSIVE EdgePerResolvableRow(_, _, _)
EdgePerResolvableRow(rows, ids, targets) ==
    IF rows = <<>> THEN <<>>
    ELSE LET from == FindIndex(ids, Head(rows).id)
             to   == FindIndex(targets, Head(rows).target)
         IN  (IF from.found /\ to.found THEN <<Link(from.index, to.index)>> ELSE <<>>)
             \o EdgePerResolvableRow(Tail(rows), ids, targets)

\* the dump holds the pages A and B, the link target B and the link A -> B
EdgeResolveScenario ==
    /\ {TableRow(10, 0, "A"), TableRow(11, 0, "B")} \subseteq SeqRange(RowsOf(page_file))
    /\ TableRow(99, 0, "B") \in SeqRange(RowsOf(linktarget_file))
    /\ PagelinksRow(10, 0, 99) \in SeqRange(RowsOf(pagelinks_file))

\* C4: every page-link row of the main namespace whose page id and link
\* target id are found appends exactly one edge, whatever INSERT INTO line it
\* is on; with the pages A and B, the link target B and the link A -> B the
\* adjacency list of A is exactly [B].
C4_OneEdgePerResolvableRow ==
    /\ PagelinksLoaded =>
          links_ = EdgePerResolvableRow(MainRows(pagelinks_file), page_id_to_index_,
                                        linktarget_map_)
    /\ (instance /\ EdgeResolveScenario) =>
          adjacency_list[FindIndex(page_title_to_index_, "A").index]
             = <<FindIndex(page_title_to_index_, "B").index>>

\* load_page_table has returned and the id lookup is still alive
PagesLoaded ==
    loader_pc \in {"store_LoadLinkTargets", "load_linktarget_table", "linktarget_lines",
                   "store_LoadLinks", "load_pagelinks_table", "pagelinks_lines",
                   "cleanup_after_link_load"}

\* C5: every row of the main namespace produces exactly one Page, the id
\* lookup maps the id of the Page at position i to i, and the page count and
\* the size of the id lookup equal the number of main-namespace rows, for
\* rows on the first INSERT INTO line as for later ones.
C5_OnePagePerMainRow ==
    /\ page_id_to_index_ # NullPtr =>
          \A i \in 1..Len(pages_) : Deref(page_id_to_index_)[pages_[i].page_id] = i - 1
    /\ PagesLoaded =>
          /\ Len(pages_) = Len(MainRows(page_file))
          /\ Cardinality(DOMAIN Deref(page_id_to_index_)) = Len(MainRows(page_file))

\* the stage values of loading, in order
LoadingStages == <<"LoadPages", "LoadLinkTargets", "LoadLinks", "BuildingGraph", "UserInput">>

\* the stage stays, moves to the next loading stage, or moves between the
\* input and the results of a ready program
StageAdvances ==
    \/ stage' = stage
    \/ \E i \in 1..(Len(LoadingStages) - 1) :
          stage = LoadingStages[i] /\ stage' = LoadingStages[i + 1]
    \/ {stage, stage'} \subseteq {"UserInput", "ShowPaths"}

\* a loading stage is entered only after the loader before it read its file
\* to the end
EntersAfterEndOfStream ==
    /\ (stage' # stage /\ stage' = "LoadLinkTargets") => line_no = Len(page_file)
    /\ (stage' # stage /\ stage' = "LoadLinks") => line_no = Len(linktarget_file)
    /\ (stage' # stage /\ stage' = "BuildingGraph") => line_no = Len(pagelinks_file)

\* C7: once the loader thread has started, in every interleaving with the UI
\* thread the stage only advances LoadPages, LoadLinkTargets, LoadLinks,
\* BuildingGraph, UserInput, without skipping a stage or moving back, and
\* each stage is entered after the loader before it reached end of stream.
C7_StageOnlyAdvances ==
    [][loader_pc # "not_started" => (StageAdvances /\ EntersAfterEndOfStream)]_vars

\* the keys any lookup is asked for
LookupKeys ==
    {PageRows[i].id : i \in DOMAIN PageRows} \cup
    {LinktargetRows[i].id : i \in DOMAIN LinktargetRows}

\* graph construction has begun or is over
GraphConstructionBegun ==
    loader_pc \in {"graph_init", "graph_init_return", "cleanup_after_graph_build",
                   "store_UserInput", "finished"}

ReclaimedBeforeLaterStage ==
    /\ (stage = "BuildingGraph" \/ GraphConstructionBegun) =>
          /\ page_id_to_index_ = NullPtr
          /\ linktarget_map_ = NullPtr
          /\ \A k \in LookupKeys :
                /\ ~FindIndex(page_id_to_index_, k).found
                /\ ~FindIndex(linktarget_map_, k).found
    /\ stage \in {"UserInput", "ShowPaths"} =>
          /\ GraphConstructionBegun
          /\ links_ = <<>>
          /\ instance

\* reclamation leaves the pages and the title lookup as they are, the graph
\* takes the pages as they were loaded, and a built graph is not changed
PagesAndAdjacencyRetained ==
    /\ loader_pc = "cleanup_after_link_load" =>
          UNCHANGED <<pages_, page_title_to_index_, links_>>
    /\ (loader_pc = "graph_init" /\ loader_pc' # loader_pc) => graph_pages' = pages_
    /\ loader_pc = "cleanup_after_graph_build" => page_title_to_index_' = page_title_to_index_
    /\ instance => UNCHANGED <<instance, graph_pages, adjacency_list>>

\* C8: the id lookup and the link target lookup are destroyed before the
\* stage becomes BuildingGraph and before graph construction begins, the edge
\* list is destroyed before the stage becomes UserInput; after that the
\* lookups find no key, and the pages and the adjacency are retained.
C8_ReclaimedBeforeLaterStage ==
    [](ReclaimedBeforeLaterStage) /\ [][PagesAndAdjacencyRetained]_vars

\* the program is ready with a graph of several pages and an edge
C8_Witness ==
    /\ stage = "UserInput"
    /\ loader_pc = "finished"
    /\ Len(graph_pages) >= 2
    /\ \E i \in DOMAIN adjacency_list : adjacency_list[i] # <<>>
    /\ page_id_to_index_ = NullPtr
    /\ links_ = <<>>

\* the rows of a dump file outside namespace 0, and those in it
OtherNamespaceRows(file) == {r \in SeqRange(RowsOf(file)) : r.ns # 0}

NamespaceZeroRows(file) == {r \in SeqRange(RowsOf(file)) : r.ns = 0}

\* the edges the namespace 0 rows of the pagelinks dump resolve to
NamespaceZeroEdges ==
    {Link(FindIndex(page_id_to_index_, r.id).index,
          FindIndex(linktarget_map_, r.target).index) :
        r \in {q \in NamespaceZeroRows(pagelinks_file) :
                  /\ FindIndex(page_id_to_index_, q.id).found
                  /\ FindIndex(linktarget_map_, q.target).found}}

\* C11: a row whose namespace is not 0 adds nothing to the page vector, the
\* id lookup, the title lookup, the link target lookup or the edge list, and
\* the namespace 0 rows of the same dump are still loaded.
C11_OtherNamespacesNeverEnter ==
    /\ \A p \in SeqRange(pages_) \cup SeqRange(graph_pages) :
          \E r \in NamespaceZeroRows(page_file) : r.id = p.page_id /\ r.title = p.page_title
    /\ page_id_to_index_ # NullPtr =>
          DOMAIN Deref(page_id_to_index_) \subseteq {r.id : r \in NamespaceZeroRows(page_file)}
    /\ page_title_to_index_ # NullPtr =>
          DOMAIN Deref(page_title_to_index_)
             \subseteq {r.title : r \in NamespaceZeroRows(page_file)}
    /\ linktarget_map_ # NullPtr =>
          DOMAIN Deref(linktarget_map_)
             \subseteq {r.id : r \in NamespaceZeroRows(linktarget_file)}
    /\ (page_id_to_index_ # NullPtr /\ linktarget_map_ # NullPtr) =>
          SeqRange(links_) \subseteq NamespaceZeroEdges
    /\ NamespaceZeroRows(pagelinks_file) = {} =>
          /\ links_ = <<>>
          /\ \A i \in DOMAIN adjacency_list : adjacency_list[i] = <<>>
    /\ PagesLoaded =>
          {r.id : r \in NamespaceZeroRows(page_file)} \subseteq DOMAIN Deref(page_id_to_index_)

\* every dump held a row of another namespace on a line with a namespace 0
\* row, and the graph was built with an edge
C11_Witness ==
    /\ loader_pc = "finished"
    /\ \A file \in {page_file, linktarget_file, pagelinks_file} :
          \E i \in DOMAIN file :
             /\ \E r \in SeqRange(file[i].rows) : r.ns # 0
             /\ \E r \in SeqRange(file[i].rows) : r.ns = 0
    /\ \E i \in DOMAIN adjacency_list : adjacency_list[i] # <<>>

\* the tuples a line was written from, as text
TupleTexts(rows) == [i \in DOMAIN rows |-> TupleText(rows[i])]

\* no tuple of the line holds the three characters ),(
NoSeparatorInside(rows) ==
    \A i \in DOMAIN rows : FindStr(TupleText(rows[i]), <<")", ",", "(">>, 0) = NPOS

\* C12: for a line <prefix>(t1),(t2),...,(tn); whose tuples hold no ),(
\* extract_tuples returns t1, ..., tn in order, parse_line takes them left to
\* right, and the line INSERT INTO x VALUES (1,0,'A_B',0),(2,0,'C',1); yields
\* exactly the pages (1, "A B", false) and (2, "C", true).
C12_TuplesSplitInOrder ==
    /\ (sql_pc \notin {"idle", "line"} /\ NoSeparatorInside(sql_rows)) =>
          LET texts == TupleTexts(sql_rows)
              taken == Len(texts) - Len(sql_tuples)
          IN  /\ taken >= 0
              /\ sql_tuples = SubSeq(texts, taken + 1, Len(texts))
              /\ taken > 0 => m_tuple = texts[taken]
    /\ (sql_pc = "done" /\ sql_rows = TupleSplitRows) =>
          sql_pages = <<PageRow(1, <<"A", " ", "B">>, FALSE), PageRow(2, <<"C">>, TRUE)>>

\* parse_line has returned the two pages of the documented line
C12_Witness ==
    /\ sql_pc = "done"
    /\ sql_rows = TupleSplitRows
    /\ Len(sql_pages) = 2

\* the query asks for the paths from a page to itself
SameEndpoints == InRangeQuery /\ start_index = end_index

\* C13: all_shortest_paths(A, A) returns exactly one path, [A], of length 0,
\* whatever edges leave A and whether or not A links to itself.
C13_PathToItselfIsTheSingleNode ==
    (bfs_pc = "done" /\ SameEndpoints) => paths = <<<<start_index>>>>

\* the page links to itself and to another page
C13_Witness ==
    /\ bfs_pc = "done"
    /\ SameEndpoints
    /\ start_index \in SeqRange(adjacency_list[start_index])
    /\ SeqRange(adjacency_list[start_index]) # {start_index}
    /\ Len(paths) = 1

\* no walk leads from start_index to end_index
EndUnreachable ==
    /\ InRangeQuery
    /\ MinDistance(adjacency_list, start_index, end_index) = -1

\* the unreachable end never gets a distance, the search never backtracks,
\* and what it returns is the empty list
UnreachableReturnsNoPath ==
    EndUnreachable =>
        /\ bfs_pc # "backtrack"
        /\ bfs_pc \in {"bfs", "done"} => dist[end_index] = UINT32_MAX
        /\ bfs_pc = "done" => paths = <<>>

\* the loop of bfs_with_parents is left by its condition, not by the break
LoopEndsOnEmptyQueue ==
    (EndUnreachable /\ bfs_pc = "bfs" /\ bfs_pc' # "bfs") => queue = <<>>

\* C14: when end_index cannot be reached from start_index the search ends
\* when its queue is empty, with dist[end_index] still unset, and
\* all_shortest_paths returns the empty list.
C14_UnreachableEndReturnsNoPath ==
    []UnreachableReturnsNoPath /\ [][LoopEndsOnEmptyQueue]_vars

\* the search explored two pages or more and found no way to the end
C14_Witness ==
    /\ bfs_pc = "done"
    /\ EndUnreachable
    /\ bfs_progress.total_explored_nodes >= 2
    /\ paths = <<>>

\* the file holds no INSERT INTO line
NoInsertLine(file) == \A i \in DOMAIN file : ~file[i].insert

EmptyInput ==
    /\ NoInsertLine(page_file)
    /\ NoInsertLine(linktarget_file)
    /\ NoInsertLine(pagelinks_file)

\* on empty input the graph the loader thread builds has no page and no
\* adjacency row, every pair of indices is out of bounds for it, and a
\* search returns no path
EmptyInputBuildsEmptyGraph ==
    EmptyInput =>
        /\ pages_ = <<>>
        /\ links_ = <<>>
        /\ loader_pc = "finished" =>
              /\ instance
              /\ graph_pages = <<>>
              /\ DOMAIN adjacency_list = {}
              /\ \A s \in 0..NumPages, e \in 0..NumPages :
                    OutOfBounds(adjacency_list, s, e)
        /\ bfs_pc = "idle" /\ dist = <<>>
        /\ found_paths = <<>>

\* the store of UserInput is the last step of the loader thread
LoaderEndsInUserInput ==
    (loader_pc # "finished" /\ loader_pc' = "finished") => stage' = "UserInput"

\* C15: with input that holds no INSERT INTO line the loader thread still
\* runs every stage to the store of UserInput, the graph it builds has no
\* page and an empty adjacency list, and all_shortest_paths has no pair of
\* indices it would not reject as out of bounds.
C15_EmptyInputStillReachesReady ==
    /\ []EmptyInputBuildsEmptyGraph
    /\ [][LoaderEndsInUserInput]_vars
    /\ (EmptyInput /\ loader_pc = "load_page_table") ~> (loader_pc = "finished")

\* the loader thread has finished on empty input, and a search was answered
C15_Witness ==
    /\ EmptyInput
    /\ loader_pc = "finished"
    /\ instance
    /\ search_pc = "returned"
    /\ page_file # <<>>

\* load_page_table has returned
PageTableLoaded == loader_pc \notin {"not_started", "load_page_table", "page_lines"}

\* the pages as the process holds them: in the loader, then in the graph
HeldPages ==
    IF instance \/ loader_pc = "graph_init_return" THEN graph_pages ELSE pages_

\* every title of a loaded row is found, at the index of a page of that title
LoadedTitlesResolve ==
    PageTableLoaded =>
        /\ page_title_to_index_ # NullPtr
        /\ \A i \in DOMAIN MainRows(page_file) :
              LET title == MainRows(page_file)[i].title
                  res   == FindIndex(page_title_to_index_, title)
              IN  /\ res.found
                  /\ res.index < Len(HeldPages)
                  /\ HeldPages[res.index + 1].page_title = title

\* the lookup by title is the one load_page_table left
TitleIndexKept ==
    (PageTableLoaded /\ loader_pc' # "not_started")
        => page_title_to_index_' = page_title_to_index_

GraphContents == <<graph_pages, adjacency_list, number_of_links>>

\* a step taken while the instance exists leaves it and its contents alone
InstanceIsFinal ==
    instance => (instance' /\ GraphContents' = GraphContents)

\* without an instance there is nothing to search, and the contents are those
\* of the vectors of the first init call
InstanceHoldsFirstInit ==
    /\ ~instance => (init_calls = 0 /\ bfs_pc = "idle")
    /\ instance =>
          /\ init_calls >= 1
          /\ graph_pages \in PageLists
          /\ NumberOfPages(adjacency_list) = Len(graph_pages)

\* C17: the graph instance is established once: PageGraph::init makes the
\* instance only when there is none, a later init call leaves the pages, the
\* adjacency list and the link count of the instance as they are, and neither
\* get nor all_shortest_paths changes them.
C17_InstanceEstablishedOnce ==
    []InstanceHoldsFirstInit /\ [][InstanceIsFinal]_vars

\* init was called a second time and a search then returned paths
C17_Witness ==
    /\ instance
    /\ init_calls = 2
    /\ bfs_pc = "done"
    /\ paths # <<>>
    /\ number_of_links >= 1

\* the lines of a file that end with a newline
CompleteLines(file) ==
    LET lines == FileLines(file, <<>>)
    IN  IF file # <<>> /\ Last(file) # "\n"
        THEN SubSeq(lines, 1, Len(lines) - 1)
        ELSE lines

\* the decompressor failed before the end of the file, and read_lines has
\* left its loop
DecompressionFailed ==
    /\ rd_open_ok
    /\ rd_fail_at # NoFailure
    /\ rd_fail_at < Len(rd_file)
    /\ rd_off = rd_fail_at
    /\ rd_ppc \in {"flush", "signal", "exit"}

\* the lines that were complete when decompression failed
LinesBeforeFailure == CompleteLines(SubSeq(rd_file, 1, rd_fail_at))

\* the complete lines before the failure were delivered first and in order,
\* and nothing was left in the queue
DeliveredUpToFailure ==
    /\ Len(rd_delivered) >= Len(LinesBeforeFailure)
    /\ SubSeq(rd_delivered, 1, Len(LinesBeforeFailure)) = LinesBeforeFailure
    /\ Len(rd_delivered) <= Len(LinesBeforeFailure) + 1
    /\ rd_queue = <<>>
    /\ rd_done

\* what the loader got from get_line over the whole stream is not what it
\* gets from any file that decompresses without an error
EndedInErrorIsTold ==
    \A file \in Files : FileLines(file, <<>>) # rd_delivered

\* C18: when decompression fails in the middle of the stream, every complete
\* line enqueued before the failure is delivered in order, get_line then
\* returns false, and the loader can tell the stream that ended in an error
\* from one that ended at the end of the file.
C18_FailureSurfacedToLoader ==
    (GetLineReturnedFalse /\ DecompressionFailed)
        => (DeliveredUpToFailure /\ EndedInErrorIsTold)

\* gzopen returned no handle for the file
OpenFailed == rd_started /\ ~rd_open_ok

\* parse_insert_lines has returned to the load function, which then reports
\* its progress and returns to the loader thread
LoadStageCompleted == rd_cpc = "eos"

\* C19: when an input file cannot be opened the run aborts: the load stage
\* of that file does not complete normally, so the loader thread never goes
\* on to the later stages and to UserInput with what it got from that file.
C19_OpenFailureAbortsRun == OpenFailed => ~LoadStageCompleted

\* the counts the three progress callbacks stored last
ReportedCounts == <<page_count, linktarget_count, link_count>>

\* a callback never stores a smaller count than the one before it
CountsNeverDecrease ==
    \A i \in 1..3 : ReportedCounts'[i] >= ReportedCounts[i]

\* when a load function has returned, the count its forced report stored is
\* the size of the loader's container
FinalReportIsContainerSize ==
    /\ loader_pc = "store_LoadLinkTargets" => page_count = Len(pages_)
    /\ loader_pc = "store_LoadLinks" =>
          linktarget_count = Cardinality(DOMAIN Deref(linktarget_map_))
    /\ loader_pc = "cleanup_after_link_load" => link_count = Len(links_)

\* C20: for each of the three loaders the count argument of successive
\* progress callbacks never decreases over the stage, the final forced
\* report included.
C20_ProgressCountsNeverDecrease ==
    [][CountsNeverDecrease]_vars /\ []FinalReportIsContainerSize

\* the three stages have ended with their forced reports, each of a count
\* above zero
C20_Witness ==
    /\ loader_pc = "finished"
    /\ page_count >= 2
    /\ linktarget_count >= 1
    /\ link_count >= 1


(***************************************************************************)
(* Graph construction on its own: the loader thread arrives at             *)
(* PageGraph::init with any pages and any edge list over them.             *)
(***************************************************************************)
\* DataLoaderManager.cpp line 97 is reached: the tables are loaded, the id
\* lookup and the link target lookup are destroyed, the stage is BuildingGraph
InitBuild ==
    /\ BfsUnused
    /\ SqlIdle
    /\ RdIdle
    /\ ProgIdle
    /\ PoolIdle
    /\ IdxIdle
    /\ stage = "BuildingGraph"
    /\ ui_pc = "idle"
    /\ download_started = FALSE
    /\ download_error = FALSE
    /\ downloads_running = {}
    /\ download_complete = [f \in DumpKinds |-> FALSE]
    /\ loader_pc = "graph_init"
    /\ page_file = <<>>
    /\ linktarget_file = <<>>
    /\ pagelinks_file = <<>>
    /\ line_no = 0
    /\ first_result = FALSE
    /\ pages_ \in PageLists
    /\ page_id_to_index_ = NullPtr
    /\ page_title_to_index_ =
          MakeUnique(InsertPages([pages |-> <<>>, ids |-> EmptyMap, titles |-> EmptyMap],
                                 pages_).titles)
    /\ page_count = Len(pages_)
    /\ linktarget_map_ = NullPtr
    /\ linktarget_stats = [parsed |-> 0, mapped |-> 0, title_misses |-> 0]
    /\ linktarget_count = 0
    /\ links_ \in SeqsUpTo(LinkSet(Len(pages_)), MaxLinks)
    /\ link_stats = [parsed |-> Len(links_), inserted |-> Len(links_), from_misses |-> 0,
                     target_misses |-> 0]
    /\ link_count = Len(links_)
    /\ instance = FALSE
    /\ graph_pages = <<>>
    /\ number_of_links = 0
    /\ init_calls = 0
    /\ search_pc = "none"
    /\ is_searching = FALSE
    /\ error_message = ""
    /\ found_paths = <<>>

NextBuild ==
    \/ PageGraphInit
    \/ PageGraphInitReturn
    \/ CleanupAfterGraphBuild
    \/ StoreUserInput

SpecBuild == InitBuild /\ [][NextBuild]_vars

(***************************************************************************)
(* parse_insert_lines of the parallel build and its WThreadPool.  A task   *)
(* is the number of its submission; the worker threads are alike, so the   *)
(* model keeps the tasks they are executing and how many have returned.    *)
(***************************************************************************)
\* a backpressure test that never finds the queue of futures too long
FuturesNeverOverBound(futures) == FALSE

\* DataLoaderBase.h lines 88 and 109: futures.size_approx() > max_futures
FuturesOverBound(futures) == Len(futures) > MaxConcurrent * 2

\* the files: INSERT INTO lines only, with or without a leading other line
PoolFiles ==
    LET bodies == {Repeat(<<"insert">>, n) : n \in 0..MaxPoolLines}
    IN  bodies \cup {<<"other">> \o b : b \in bodies}

PoolFrame == UNCHANGED <<bfsVars, sqlVars, rdVars, pipeVars, progVars, idxVars>>

\* the worker threads that are neither executing a task nor returned
IdleWorkers == MaxConcurrent - Cardinality(pool_running) - pool_exited

\* lines 104-105: while (reader.get_line(line)), lines that do not start
\* with INSERT INTO are passed over
PoolGetLine ==
    /\ pool_pc = "get_line"
    /\ IF pool_line_no < Len(pool_file)
       THEN /\ pool_line_no' = pool_line_no + 1
            /\ pool_pc' = IF pool_file[pool_line_no + 1] = "insert"
                          THEN "submit" ELSE "get_line"
       ELSE /\ pool_pc' = "final_drain"
            /\ UNCHANGED pool_line_no
    /\ UNCHANGED <<pool_file, pool_submitted, pool_tasks, pool_running, pool_done,
                   pool_futures, pool_emitted, pool_first, pool_is_first_emitted,
                   pool_stop, pool_exited>>
    /\ PoolFrame

\* lines 106-109 with WThreadPool::enqueue lines 88-110: the task is put
\* into the pool's queue, its future into futures, and the length of futures
\* is tested
PoolSubmit ==
    /\ pool_pc = "submit"
    /\ LET task == pool_submitted + 1
       IN  /\ pool_submitted' = task
           /\ pool_tasks' = Append(pool_tasks, task)
           /\ pool_futures' = Append(pool_futures, task)
    /\ pool_pc' = IF FuturesOverBound(pool_futures') THEN "drain_one" ELSE "get_line"
    /\ UNCHANGED <<pool_file, pool_line_no, pool_running, pool_done, pool_emitted,
                   pool_first, pool_is_first_emitted, pool_stop, pool_exited>>
    /\ PoolFrame

\* drain_one lines 91-99 on a queue that is not empty: fut.get() returns
\* when the oldest future is ready, on_first takes the first result and
\* on_result takes every result
DrainOldest ==
    /\ pool_futures # <<>>
    /\ Head(pool_futures) \in pool_done
    /\ pool_futures' = Tail(pool_futures)
    /\ pool_first' = IF pool_is_first_emitted
                     THEN Append(pool_first, Head(pool_futures)) ELSE pool_first
    /\ pool_is_first_emitted' = FALSE
    /\ pool_emitted' = Append(pool_emitted, Head(pool_futures))

\* lines 109-112: the backpressure drains one future
PoolBackpressure ==
    /\ pool_pc = "drain_one"
    /\ DrainOldest
    /\ pool_pc' = "get_line"
    /\ UNCHANGED <<pool_file, pool_line_no, pool_submitted, pool_tasks, pool_running,
                   pool_done, pool_stop, pool_exited>>
    /\ PoolFrame

\* lines 115-116: while (drain_one()) {}
PoolFinalDrain ==
    /\ pool_pc = "final_drain"
    /\ IF pool_futures = <<>>
       THEN /\ pool_pc' = "destroy"
            /\ UNCHANGED <<pool_futures, pool_first, pool_is_first_emitted, pool_emitted>>
       ELSE /\ DrainOldest
            /\ UNCHANGED pool_pc
    /\ UNCHANGED <<pool_file, pool_line_no, pool_submitted, pool_tasks, pool_running,
                   pool_done, pool_stop, pool_exited>>
    /\ PoolFrame

\* ~WThreadPool line 114: stop.store(true)
PoolDestroy ==
    /\ pool_pc = "destroy"
    /\ pool_stop' = TRUE
    /\ pool_pc' = "join"
    /\ UNCHANGED <<pool_file, pool_line_no, pool_submitted, pool_tasks, pool_running,
                   pool_done, pool_futures, pool_emitted, pool_first,
                   pool_is_first_emitted, pool_exited>>
    /\ PoolFrame

\* ~WThreadPool lines 117-121: every worker is joined, parse_insert_lines
\* returns
PoolJoin ==
    /\ pool_pc = "join"
    /\ pool_exited = MaxConcurrent
    /\ pool_pc' = "eos"
    /\ UNCHANGED <<pool_file, pool_line_no, pool_submitted, pool_tasks, pool_running,
                   pool_done, pool_futures, pool_emitted, pool_first,
                   pool_is_first_emitted, pool_stop, pool_exited>>
    /\ PoolFrame

\* WThreadPool.h line 66: a worker takes the oldest task
WorkerDequeue ==
    /\ IdleWorkers > 0
    /\ pool_tasks # <<>>
    /\ pool_running' = pool_running \cup {Head(pool_tasks)}
    /\ pool_tasks' = Tail(pool_tasks)
    /\ UNCHANGED <<pool_pc, pool_file, pool_line_no, pool_submitted, pool_done,
                   pool_futures, pool_emitted, pool_first, pool_is_first_emitted,
                   pool_stop, pool_exited>>
    /\ PoolFrame

\* line 68: task() runs parse_fn and makes the future ready
WorkerRun(task) ==
    /\ task \in pool_running
    /\ pool_running' = pool_running \ {task}
    /\ pool_done' = pool_done \cup {task}
    /\ UNCHANGED <<pool_pc, pool_file, pool_line_no, pool_submitted, pool_tasks,
                   pool_futures, pool_emitted, pool_first, pool_is_first_emitted,
                   pool_stop, pool_exited>>
    /\ PoolFrame

\* lines 72-76: no task and stop is set, the worker returns
WorkerExit ==
    /\ IdleWorkers > 0
    /\ pool_tasks = <<>>
    /\ pool_stop
    /\ pool_exited' = pool_exited + 1
    /\ UNCHANGED <<pool_pc, pool_file, pool_line_no, pool_submitted, pool_tasks,
                   pool_running, pool_done, pool_futures, pool_emitted, pool_first,
                   pool_is_first_emitted, pool_stop>>
    /\ PoolFrame

\* parse_insert_lines is entered: the pool is constructed with max_concurrent
\* workers (lines 85-88)
InitPool ==
    /\ BfsUnused
    /\ SqlIdle
    /\ RdIdle
    /\ PipeIdle
    /\ ProgIdle
    /\ IdxIdle
    /\ pool_pc = "get_line"
    /\ pool_file \in PoolFiles
    /\ pool_line_no = 0
    /\ pool_submitted = 0
    /\ pool_tasks = <<>>
    /\ pool_running = {}
    /\ pool_done = {}
    /\ pool_futures = <<>>
    /\ pool_emitted = <<>>
    /\ pool_first = <<>>
    /\ pool_is_first_emitted = TRUE
    /\ pool_stop = FALSE
    /\ pool_exited = 0

\* the thread that runs parse_insert_lines
PoolCaller ==
    \/ PoolGetLine
    \/ PoolSubmit
    \/ PoolBackpressure
    \/ PoolFinalDrain
    \/ PoolDestroy
    \/ PoolJoin

\* the numbers of the tasks
PoolTasks == 1..MaxPoolLines

NextPool ==
    \/ PoolGetLine
    \/ PoolSubmit
    \/ PoolBackpressure
    \/ PoolFinalDrain
    \/ PoolDestroy
    \/ PoolJoin
    \/ WorkerDequeue
    \/ \E task \in PoolTasks : WorkerRun(task)
    \/ WorkerExit

\* every thread that can take a step is scheduled
SpecPoolFair ==
    /\ InitPool
    /\ [][NextPool]_vars
    /\ WF_vars(PoolCaller)
    /\ WF_vars(WorkerDequeue)
    /\ \A task \in PoolTasks : WF_vars(WorkerRun(task))
    /\ WF_vars(WorkerExit)

(***************************************************************************)
(* ParallelLineReader: the constructor, the block index of the data file,  *)
(* and the export of the index when the reader thread is done.             *)
(***************************************************************************)
DataPaths == {"page.sql.gz", "linktarget.sql.gz", "pagelinks.sql.gz"}

ExplicitIndexPath == "index.gzi"

\* ParallelLineReader::resolve_index_path
resolve_index_path(path, index_path_hint) ==
    IF index_path_hint # "" THEN index_path_hint ELSE path \o ".gzi"

IdxFrame == UNCHANGED <<bfsVars, sqlVars, rdVars, pipeVars, progVars, poolVars>>

\* lines 60-67: calculate_total_bytes throws when the data file is missing
CalculateTotalBytes ==
    /\ idx_pc = "calculate_total_bytes"
    /\ idx_pc' = IF idx_data_exists THEN "initialize_reader" ELSE "thrown"
    /\ UNCHANGED <<data_path, index_path, idx_data_exists, idx_files,
                   resolved_index_path_, idx_imported, idx_lines>>
    /\ IdxFrame

\* lines 69-93, called from line 18: the decompressor is made (or throws);
\* the index at resolved_index_path_, as that member is at this point, is
\* given to importIndex when the path is not empty and the file exists
InitializeReader(opened) ==
    /\ idx_pc = "initialize_reader"
    /\ IF ~opened
       THEN /\ idx_pc' = "thrown"
            /\ UNCHANGED idx_imported
       ELSE /\ idx_pc' = "resolve_index_path"
            /\ idx_imported' =
                  IF /\ resolved_index_path_ # ""
                     /\ resolved_index_path_ \in idx_files
                  THEN Append(idx_imported, resolved_index_path_)
                  ELSE idx_imported
    /\ UNCHANGED <<data_path, index_path, idx_data_exists, idx_files,
                   resolved_index_path_, idx_lines>>
    /\ IdxFrame

\* line 20: resolved_index_path_ = resolve_index_path(data_path, index_path)
StoreResolvedIndexPath ==
    /\ idx_pc = "resolve_index_path"
    /\ resolved_index_path_' = resolve_index_path(data_path, index_path)
    /\ idx_pc' = "constructed"
    /\ UNCHANGED <<data_path, index_path, idx_data_exists, idx_files, idx_imported,
                   idx_lines>>
    /\ IdxFrame

\* get_line: a line is returned, or the reader thread is done and the
\* queue is empty
IndexedGetLine(more) ==
    /\ idx_pc = "constructed"
    /\ IF more /\ idx_lines < MaxIndexedLines
       THEN /\ idx_lines' = idx_lines + 1
            /\ UNCHANGED idx_pc
       ELSE /\ idx_pc' = "export"
            /\ UNCHANGED idx_lines
    /\ UNCHANGED <<data_path, index_path, idx_data_exists, idx_files,
                   resolved_index_path_, idx_imported>>
    /\ IdxFrame

\* read_lines lines 134-151: the index is written to resolved_index_path_
\* unless the file cannot be written
ExportIndex(written) ==
    /\ idx_pc = "export"
    /\ idx_files' = IF resolved_index_path_ # "" /\ written
                    THEN idx_files \cup {resolved_index_path_} ELSE idx_files
    /\ idx_pc' = "exited"
    /\ UNCHANGED <<data_path, index_path, idx_data_exists, resolved_index_path_,
                   idx_imported, idx_lines>>
    /\ IdxFrame

\* the constructor is entered: the members are default-initialised, the path
\* member is empty (ParallelLineReader.cpp lines 15-16)
InitIndexed ==
    /\ BfsUnused
    /\ SqlIdle
    /\ RdIdle
    /\ PipeIdle
    /\ ProgIdle
    /\ PoolIdle
    /\ idx_pc = "calculate_total_bytes"
    /\ data_path \in DataPaths
    /\ index_path \in {"", ExplicitIndexPath}
    /\ idx_data_exists \in BOOLEAN
    /\ idx_files \in SUBSET {data_path \o ".gzi", ExplicitIndexPath}
    /\ resolved_index_path_ = ""
    /\ idx_imported = <<>>
    /\ idx_lines = 0

NextIndexed ==
    \/ CalculateTotalBytes
    \/ \E opened \in BOOLEAN : InitializeReader(opened)
    \/ StoreResolvedIndexPath
    \/ \E more \in BOOLEAN : IndexedGetLine(more)
    \/ \E written \in BOOLEAN : ExportIndex(written)

SpecIndexed == InitIndexed /\ [][NextIndexed]_vars

(***************************************************************************)
(* The two joins on their own: the link target table and the page links    *)
(* table are loaded against a page table that is already in memory.        *)
(***************************************************************************)
\* link targets of the pages A and B and of a title no page has
JoinLinktargetRows == <<TableRow(98, 0, "A"), TableRow(99, 0, "B"), TableRow(96, 0, "Z")>>

\* links from the page A and from an id no page has, to the link target of B
\* and to an id no link target has
JoinPagelinksRows == <<PagelinksRow(10, 0, 99), PagelinksRow(12, 0, 99),
                       PagelinksRow(10, 0, 95), PagelinksRow(12, 0, 95)>>

JoinLinktargetFiles == TableFiles(JoinLinktargetRows)

JoinPagelinksFiles == TableFiles(JoinPagelinksRows)

\* DataLoaderManager.cpp line 48 is passed: load_page_table has returned, the
\* stage is LoadLinkTargets, the other two loaders are as constructed
InitJoin ==
    /\ BfsUnused
    /\ SqlIdle
    /\ RdIdle
    /\ ProgIdle
    /\ PoolIdle
    /\ IdxIdle
    /\ stage = "LoadLinkTargets"
    /\ ui_pc = "idle"
    /\ download_started = FALSE
    /\ download_error = FALSE
    /\ downloads_running = {}
    /\ download_complete = [f \in DumpKinds |-> FALSE]
    /\ loader_pc = "load_linktarget_table"
    /\ page_file = <<>>
    /\ linktarget_file \in JoinLinktargetFiles
    /\ pagelinks_file \in JoinPagelinksFiles
    /\ line_no = 0
    /\ first_result = FALSE
    /\ pages_ \in PageLists
    /\ page_id_to_index_ =
          MakeUnique(InsertPages([pages |-> <<>>, ids |-> EmptyMap, titles |-> EmptyMap],
                                 pages_).ids)
    /\ page_title_to_index_ =
          MakeUnique(InsertPages([pages |-> <<>>, ids |-> EmptyMap, titles |-> EmptyMap],
                                 pages_).titles)
    /\ page_count = Len(pages_)
    /\ linktarget_map_ = MakeUnique(EmptyMap)
    /\ linktarget_stats = [parsed |-> 0, mapped |-> 0, title_misses |-> 0]
    /\ linktarget_count = 0
    /\ links_ = <<>>
    /\ link_stats = [parsed |-> 0, inserted |-> 0, from_misses |-> 0, target_misses |-> 0]
    /\ link_count = 0
    /\ instance = FALSE
    /\ graph_pages = <<>>
    /\ number_of_links = 0
    /\ init_calls = 0
    /\ search_pc = "none"
    /\ is_searching = FALSE
    /\ error_message = ""
    /\ found_paths = <<>>

NextJoin ==
    \/ LoadLinktargetTableBegin
    \/ \E elapsed \in BOOLEAN : LoadLinktargetLine(elapsed)
    \/ LoadLinktargetTableReturn
    \/ StoreLoadLinks
    \/ LoadPagelinksTableBegin
    \/ \E elapsed \in BOOLEAN : LoadPagelinksLine(elapsed)
    \/ LoadPagelinksTableReturn
    \/ CleanupAfterLinkLoad

SpecJoin == InitJoin /\ [][NextJoin]_vars

(***************************************************************************)
(* C21: the throttled calls of the progress callback and the forced one.   *)
(***************************************************************************)
\* the time of the invocation before the i-th one, the start of the stage for
\* the first
PreviousCallTime(i) == IF i = 1 THEN prog_start_time ELSE prog_calls[i - 1].at

ThrottledCallsAreDue ==
    \A i \in 1..Len(prog_calls) :
        ~prog_calls[i].force => prog_calls[i].at - PreviousCallTime(i) >= RefreshRate

ForcedCalls == {i \in 1..Len(prog_calls) : prog_calls[i].force}

OneForcedCallAtTheEnd ==
    IF prog_pc = "returned"
    THEN /\ ForcedCalls = {Len(prog_calls)}
         /\ Last(prog_calls).count = prog_size
    ELSE ForcedCalls = {}

\* C21: every invocation of the progress callback made after a batch comes at
\* least refresh_rate after the invocation before it (after the start of the
\* stage for the first one); no forced invocation happens before the end of
\* the stream, and once the load function has returned exactly one has, as
\* the last invocation, carrying the final size of the container.
C21_ProgressIsThrottledAndForcedOnce ==
    ThrottledCallsAreDue /\ OneForcedCallAtTheEnd

\* a load returned after a throttled invocation, and its forced invocation
\* came sooner than refresh_rate after that one
C21_Witness ==
    /\ prog_pc = "returned"
    /\ prog_size > 0
    /\ Len(prog_calls) >= 2
    /\ ~prog_calls[1].force
    /\ Last(prog_calls).at - PreviousCallTime(Len(prog_calls)) < RefreshRate


(***************************************************************************)
(* C22: the title lookup points at a page of its title.                    *)
(***************************************************************************)
TitleIndexLive == page_title_to_index_ # NullPtr

\* C22: while the title lookup exists, before and after the page vector is
\* moved into the graph, every entry (k, v) of it has v below the number of
\* pages held and the page at index v carries the title k; the first batch
\* of a file is inserted twice, so titles repeat in the page vector.
C22_TitleIndexPointsAtItsTitle ==
    TitleIndexLive =>
        \A k \in DOMAIN Deref(page_title_to_index_) :
            LET v == Deref(page_title_to_index_)[k]
            IN  /\ v < Len(HeldPages)
                /\ HeldPages[v + 1].page_title = k

\* two titles are indexed and one of them was inserted more than once
C22_Witness ==
    /\ TitleIndexLive
    /\ Cardinality(DOMAIN Deref(page_title_to_index_)) = 2
    /\ Len(HeldPages) > 2


(***************************************************************************)
(* C23: every stored index is the index of a page.                         *)
(***************************************************************************)
\* the values of a lookup, none when it was destroyed
LookupValues(ptr) ==
    IF ptr = NullPtr THEN {} ELSE {Deref(ptr)[k] : k \in DOMAIN Deref(ptr)}

\* every index the loaders and the graph store
StoredIndices ==
    LookupValues(page_id_to_index_) \cup LookupValues(page_title_to_index_) \cup
    LookupValues(linktarget_map_) \cup
    {links_[i].page_from : i \in DOMAIN links_} \cup
    {links_[i].page_to : i \in DOMAIN links_} \cup
    UNION {SeqRange(adjacency_list[u]) : u \in DOMAIN adjacency_list}

\* C23: in every reachable state of the pipeline every value of the id
\* lookup, the title lookup and the link target lookup, both ends of every
\* edge of the edge list and every destination of every adjacency list is
\* below the number of pages held.
C23_StoredIndicesBelowPageCount ==
    \A v \in StoredIndices : 0 <= v /\ v < Len(HeldPages)

\* all three lookups, the edge list and later the adjacency list hold indices
C23_Witness ==
    /\ instance
    /\ \E u \in DOMAIN adjacency_list : adjacency_list[u] # <<>>
    /\ LookupValues(page_title_to_index_) # {}
    /\ Len(HeldPages) >= 2


(***************************************************************************)
(* C24: the adjacency list is the edge list grouped by source, in order.   *)
(***************************************************************************)
\* the constructor has built the adjacency list and still holds the edge list
GraphConstructed == loader_pc = "graph_init_return"

RECURSIVE SumOfLengths(_, _)
SumOfLengths(adj, n) ==
    IF n = 0 THEN 0 ELSE Len(adj[n - 1]) + SumOfLengths(adj, n - 1)

\* C24: at the end of graph construction the adjacency list of every page
\* index u is the sequence of the page_to values of the edges with
\* page_from = u in edge-list order, a repeated edge appearing as often as in
\* the edge list; the lengths of the adjacency lists add up to the length of
\* the edge list, and so does the link count of the graph.
C24_AdjacencyIsEdgeListBySource ==
    GraphConstructed =>
        /\ DOMAIN adjacency_list = 0..(Len(graph_pages) - 1)
        /\ \A u \in DOMAIN adjacency_list : adjacency_list[u] = RowOf(links_, u)
        /\ SumOfLengths(adjacency_list, Len(graph_pages)) = Len(links_)
        /\ number_of_links = Len(links_)

\* a graph was constructed from an edge list that holds an edge twice
C24_Witness ==
    /\ GraphConstructed
    /\ \E i \in DOMAIN links_ : \E j \in DOMAIN links_ : i < j /\ links_[i] = links_[j]


(***************************************************************************)
(* C25: where bfs_with_parents stops.                                      *)
(***************************************************************************)
\* the step in which the loop of bfs_with_parents is left
BfsStops == bfs_pc = "bfs" /\ bfs_pc' # "bfs"

\* the loop is left by the break of line 129, on the node just dequeued
BfsBreaks == BfsStops /\ queue # <<>>

StopsPastTheLayerOfEnd ==
    BfsBreaks =>
        /\ EndReached(dist, end_index)
        /\ dist[Head(queue)] > dist[end_index]
        /\ Head(queue) # end_index

\* C25 as stated: the search stops only when it dequeues the first node of a
\* layer strictly deeper than dist[end_index], or when the queue is empty,
\* and never on dequeuing end_index itself.
C25_StopsOnlyPastEndLayer == [][StopsPastTheLayerOfEnd]_vars

StopsAtTheLayerOfEnd ==
    BfsBreaks =>
        /\ EndReached(dist, end_index)
        /\ dist[Head(queue)] = current_layer + 1
        /\ \A j \in DOMAIN queue : dist[queue[j]] = current_layer + 1
        /\ end_index # start_index =>
              /\ dist[Head(queue)] = dist[end_index]
              /\ end_index \in SeqRange(queue)
        /\ end_index = start_index => current_layer = 0

\* C25 as the code has it: the search stops only when the queue is empty or
\* when, with dist[end_index] set, it dequeues the first node of the layer
\* after the one it was expanding; the layer it was expanding is then
\* finished, and for end_index # start_index the dequeued node is the first
\* node of the layer of end_index itself, possibly end_index.
C25_StopsAtFirstNodeOfEndLayer == [][StopsAtTheLayerOfEnd]_vars

\* the search stopped on dequeuing end_index, the only node of its layer,
\* after expanding two layers
C25_Witness ==
    /\ bfs_pc = "backtrack"
    /\ end_index # start_index
    /\ dist[end_index] = current_layer + 1
    /\ current_layer >= 1
    /\ queue = <<>>
    /\ Len(parents[end_index]) >= 2


(***************************************************************************)
(* C26: the three large structures are never alive together.               *)
(***************************************************************************)
\* the adjacency list is complete: the constructor reached its end
AdjacencyBuilt == GraphConstructed \/ instance

EdgeListLive == links_ # <<>>

LinktargetIndexLive == linktarget_map_ # NullPtr

\* C26: in no reachable state of the pipeline are a non-empty edge list, the
\* link target lookup and the complete adjacency list alive together.
C26_NeverAllThreeLive ==
    ~(EdgeListLive /\ LinktargetIndexLive /\ AdjacencyBuilt)

\* the adjacency list is complete while the edge list is still alive, and
\* the link target lookup is gone
C26_Witness ==
    /\ AdjacencyBuilt
    /\ EdgeListLive
    /\ ~LinktargetIndexLive
    /\ \E u \in DOMAIN adjacency_list : adjacency_list[u] # <<>>


(***************************************************************************)
(* C27: the queue of the sequential reader is bounded.                     *)
(***************************************************************************)
\* the producer is blocked in cv_.wait on a full queue
ProducerBlockedOnFullQueue ==
    /\ rd_profile = "sequential"
    /\ "producer" \in rd_waiting
    /\ Len(rd_queue) = AsyncMaxQueueSize

\* a producer step that makes the queue longer
AsyncPushes == rd_profile = "sequential" /\ Len(rd_queue') > Len(rd_queue)

PushesOnlyIntoRoom ==
    AsyncPushes =>
        /\ Len(rd_queue) < AsyncMaxQueueSize
        /\ Len(rd_queue') = Len(rd_queue) + 1
        /\ "producer" \notin rd_waiting

\* C27: the queue of the sequential reader never holds more than
\* MAX_QUEUE_SIZE lines; a line is pushed only in a step that finds fewer than
\* MAX_QUEUE_SIZE lines queued, and a producer that finds the queue full waits
\* until the consumer has dequeued.
C27_QueueNeverExceedsMax ==
    /\ [](rd_profile = "sequential" => Len(rd_queue) <= AsyncMaxQueueSize)
    /\ []("producer" \in rd_waiting => AsyncProducerAtWait)
    /\ [][PushesOnlyIntoRoom]_vars

\* the queue is full, the producer waits with a line in hand, and the
\* consumer has already taken lines
C27_Witness ==
    /\ ProducerBlockedOnFullQueue
    /\ rd_delivered # <<>>


(***************************************************************************)
(* C28: the sequential reader does not deadlock.                           *)
(***************************************************************************)
\* the producer has set done_ and its thread function has returned, so that
\* the join of the destructor returns, and get_line has returned false
ReaderFinished ==
    /\ rd_done
    /\ rd_ppc = "exit"
    /\ rd_cpc = "eos"

BothBlocked == rd_waiting = {"producer", "consumer"}

\* no wake-up is lost: a blocked producer has no room to push into, and a
\* blocked consumer whose predicate has become true is about to be notified
\* by the producer, which has pushed and not yet called notify_one
NoLostWakeup ==
    /\ "producer" \in rd_waiting => ~AsyncQueueHasRoom
    /\ ("consumer" \in rd_waiting /\ AsyncGetLineReady) =>
          rd_ppc \in {"notify", "notify_last"}

\* C28: with one producer and one consumer on the single condition variable,
\* in every interleaving the two threads are never blocked together, no
\* wake-up is lost, and the run arrives at the producer having set done_ and
\* returned and the consumer having received the end of the stream.
C28_SequentialReaderTerminates ==
    /\ []~BothBlocked
    /\ []NoLostWakeup
    /\ <>ReaderFinished

\* the run ended after the producer had filled the queue
C28_Witness ==
    /\ ReaderFinished
    /\ Len(rd_delivered) > AsyncMaxQueueSize


(***************************************************************************)
(* C29: no search runs against an unpublished graph.  In every interleaving *)
(* of the UI thread, the loader thread and the search thread,               *)
(* PageGraph::get is called only after PageGraph::init has returned, so it  *)
(* never throws: the title input and the results are shown only once the    *)
(* loader has built the graph, emptied the edge list and finished, and a    *)
(* search thread exists only from then on.                                  *)
(***************************************************************************)
SearchThreadExists == search_pc # "none"

GraphPublished == instance /\ links_ = <<>> /\ linktarget_map_ = NullPtr

\* PageGraph::get has not thrown out of a search thread
GetNeverThrows == search_pc # "terminated"

C29_SearchOnlyOnPublishedGraph ==
    /\ GetNeverThrows
    /\ SearchThreadExists => GraphPublished
    /\ stage \in {"UserInput", "ShowPaths"} =>
           GraphPublished /\ loader_pc = "finished"

\* a search has gone through PageGraph::get and on into the BFS
C29_Witness ==
    /\ search_pc = "all_shortest_paths"
    /\ instance
    /\ loader_pc = "finished"

(***************************************************************************)
(* C30: at most one search thread executes perform_search at a time.  While *)
(* a search is running the UI stays on the results, where no title can be   *)
(* submitted, and no step of the UI clears found_paths or error_message     *)
(* under the running search.                                                *)
(***************************************************************************)
SearchRunning == search_pc \in {"perform_search", "all_shortest_paths"}

UIClearsSearchOutputs ==
    /\ stage = "ShowPaths"
    /\ stage' = "UserInput"
    /\ found_paths' = <<>>
    /\ error_message' = ""

C30_OneSearchAtATime ==
    /\ [](SearchRunning => stage = "ShowPaths")
    /\ [][SearchRunning => ~UIClearsSearchOutputs]_vars


(***************************************************************************)
(* C31: inside a string literal a backslash followed by a character x other *)
(* than a backslash or a single quote decodes to x itself, and the string   *)
(* is parsed successfully: a main-namespace page tuple whose title literal  *)
(* holds such escapes, and no quote, is accepted with every escaped         *)
(* character kept in the title.                                            *)
(***************************************************************************)
\* every backslash of the literal is followed by a character that is neither
\* a backslash nor a quote (nor the underscore, which is converted), the
\* literal holds no quote, and it holds a backslash
RECURSIVE OnlyOtherEscapes(_)
OnlyOtherEscapes(body) ==
    IF body = <<>> THEN TRUE
    ELSE IF Head(body) = "\\"
         THEN /\ Len(body) >= 2
              /\ body[2] \notin {"\\", "'", "_"}
              /\ OnlyOtherEscapes(SubSeq(body, 3, Len(body)))
         ELSE /\ Head(body) # "'"
              /\ OnlyOtherEscapes(Tail(body))

HoldsOtherEscape(body) ==
    /\ OnlyOtherEscapes(body)
    /\ \E i \in 1..Len(body) : body[i] = "\\"

C31_OtherEscapeKeepsCharacter ==
    (/\ sql_pc = "done"
     /\ Len(sql_rows) = 1
     /\ sql_rows[1].id # <<"a">>
     /\ sql_rows[1].ns = <<"0">>
     /\ sql_rows[1].redirect # <<>>
     /\ HoldsOtherEscape(sql_rows[1].body))
        => /\ Len(sql_pages) = 1
           /\ sql_pages[1].page_title = SqlUnescape(sql_rows[1].body)


(***************************************************************************)
(* C32: when the decompressed input does not end with a newline, the bytes  *)
(* after the last newline are delivered by get_line as one final line       *)
(* before the end of the stream; when the input ends with a newline (or is  *)
(* empty), no additional empty line is delivered.  Both readers.            *)
(***************************************************************************)
NewlinePositions(file) == {i \in 1..Len(file) : file[i] = "\n"}

EndsWithoutNewline(file) == file # <<>> /\ file[Len(file)] # "\n"

\* the bytes after the last newline, the whole file when it holds none
AfterLastNewline(file) ==
    LET nl    == NewlinePositions(file)
        start == IF nl = {} THEN 1
                 ELSE (CHOOSE i \in nl : \A j \in nl : j <= i) + 1
    IN  SubSeq(file, start, Len(file))

\* the whole input was decompressed and get_line has returned false
WholeInputRead == GetLineReturnedFalse /\ rd_open_ok /\ rd_fail_at = NoFailure

C32_PartialLastLineDelivered ==
    WholeInputRead =>
        IF EndsWithoutNewline(rd_file)
        THEN /\ Len(rd_delivered) = Cardinality(NewlinePositions(rd_file)) + 1
             /\ rd_delivered[Len(rd_delivered)] = AfterLastNewline(rd_file)
        ELSE Len(rd_delivered) = Cardinality(NewlinePositions(rd_file))

\* the parallel reader delivered a complete line and then a final line that
\* no newline ends
C32_Witness ==
    /\ WholeInputRead
    /\ rd_profile = "parallel"
    /\ EndsWithoutNewline(rd_file)
    /\ NewlinePositions(rd_file) # {}
    /\ Len(rd_delivered) >= 2
    /\ rd_delivered[Len(rd_delivered)] = AfterLastNewline(rd_file)


(***************************************************************************)
(* C33: for each main-namespace link target row (lt_id, title) handed to    *)
(* insert_linktargets: when the title is in the title lookup the link       *)
(* target lookup maps lt_id to the index of that title, otherwise the link  *)
(* target lookup is left as it is and the title-miss counter grows by one;  *)
(* at all times total_linktargets_parsed = linktargets_mapped +             *)
(* title_not_found_in_pages.  The lt_id of a row is the key of the table:   *)
(* no two rows of a file share it.                                          *)
(***************************************************************************)
\* one INSERT INTO line of the link target table is being parsed and inserted
LinktargetLineStep ==
    /\ loader_pc = "linktarget_lines"
    /\ line_no < Len(linktarget_file)
    /\ line_no' = line_no + 1

\* the main-namespace rows of the line that is being inserted
LinktargetRowsOfStep ==
    LET line == linktarget_file[line_no + 1]
    IN  IF line.insert THEN SelectSeq(line.rows, IsMainNamespace) ELSE <<>>

EachLinktargetRowMappedOrCounted ==
    LET rows   == LinktargetRowsOfStep
        titles == Deref(page_title_to_index_)
        before == Deref(linktarget_map_)
        after  == Deref(linktarget_map_')
        hits   == {i \in 1..Len(rows) : rows[i].title \in DOMAIN titles}
        misses == {i \in 1..Len(rows) : rows[i].title \notin DOMAIN titles}
    IN  /\ \A i \in hits : /\ rows[i].id \in DOMAIN after
                           /\ after[rows[i].id] = titles[rows[i].title]
        /\ DOMAIN after = DOMAIN before \cup {rows[i].id : i \in hits}
        /\ \A k \in DOMAIN before : after[k] = before[k]
        /\ hits = {} => after = before
        /\ linktarget_stats'.title_misses =
              linktarget_stats.title_misses + Cardinality(misses)

LinktargetCountersAddUp ==
    linktarget_stats.parsed = linktarget_stats.mapped + linktarget_stats.title_misses

C33_LinktargetMappedOrMissCounted ==
    /\ [][LinktargetLineStep => EachLinktargetRowMappedOrCounted]_vars
    /\ []LinktargetCountersAddUp

\* the link target table is loaded: a row was mapped to the second page and
\* a row whose title no page has was counted
C33_Witness ==
    /\ loader_pc = "store_LoadLinks"
    /\ linktarget_stats.mapped >= 1
    /\ linktarget_stats.title_misses >= 1
    /\ \E k \in DOMAIN Deref(linktarget_map_) : Deref(linktarget_map_)[k] = 1


(***************************************************************************)
(* C34: for each page link row handed to insert_links an edge is appended   *)
(* iff both lookups hit; otherwise the row adds no edge, the from-miss      *)
(* counter grows iff the page id was not found and the to-miss counter      *)
(* grows iff the link target id was not found (both for a row that misses   *)
(* on both sides).  At all times the length of the edge list is             *)
(* links_inserted, and total_links_parsed is links_inserted plus the number *)
(* of rows with a miss.  The rows of the first INSERT INTO line are handed  *)
(* to insert_links by on_first and again by on_result.                      *)
(***************************************************************************)
\* one INSERT INTO line of the page links table is being parsed and inserted
PagelinksLineStep ==
    /\ loader_pc = "pagelinks_lines"
    /\ line_no < Len(pagelinks_file)
    /\ line_no' = line_no + 1

\* the main-namespace rows of the line that is being inserted
PagelinksRowsOfStep ==
    LET line == pagelinks_file[line_no + 1]
    IN  IF line.insert THEN SelectSeq(line.rows, IsMainNamespace) ELSE <<>>

\* the number of calls of insert_links for the line
InsertLinksCalls == IF first_result THEN 2 ELSE 1

EachPagelinksRowAppendedOrCounted ==
    LET rows    == PagelinksRowsOfStep
        calls   == InsertLinksCalls
        ids     == Deref(page_id_to_index_)
        targets == Deref(linktarget_map_)
        fromHit == {i \in 1..Len(rows) : rows[i].id \in DOMAIN ids}
        toHit   == {i \in 1..Len(rows) : rows[i].target \in DOMAIN targets}
        bothHit == fromHit \cap toHit
        added   == SubSeq(links_', Len(links_) + 1, Len(links_'))
    IN  /\ SubSeq(links_', 1, Len(links_)) = links_
        /\ Len(added) = calls * Cardinality(bothHit)
        /\ SeqRange(added) =
              {Link(ids[rows[i].id], targets[rows[i].target]) : i \in bothHit}
        /\ link_stats'.inserted = link_stats.inserted + calls * Cardinality(bothHit)
        /\ link_stats'.from_misses =
              link_stats.from_misses + calls * (Len(rows) - Cardinality(fromHit))
        /\ link_stats'.target_misses =
              link_stats.target_misses + calls * (Len(rows) - Cardinality(toHit))
        /\ link_stats'.parsed - link_stats'.inserted =
              (link_stats.parsed - link_stats.inserted)
                  + calls * (Len(rows) - Cardinality(bothHit))

\* the rows with a miss are at least the misses of either side and at most
\* the misses of both sides together
LinkCountersAddUp ==
    LET missed == link_stats.parsed - link_stats.inserted
    IN  /\ Len(links_) = link_stats.inserted
        /\ missed >= link_stats.from_misses
        /\ missed >= link_stats.target_misses
        /\ missed <= link_stats.from_misses + link_stats.target_misses

C34_EdgeIffBothLookupsHit ==
    /\ [][PagelinksLineStep => EachPagelinksRowAppendedOrCounted]_vars
    /\ []LinkCountersAddUp

\* the page links table is loaded: an edge was appended and a row missed on
\* both sides
C34_Witness ==
    /\ loader_pc = "cleanup_after_link_load"
    /\ link_stats.inserted >= 1
    /\ link_stats.from_misses >= 1
    /\ link_stats.target_misses >= 1
    /\ link_stats.parsed - link_stats.inserted
           < link_stats.from_misses + link_stats.target_misses


(***************************************************************************)
(* C35: a row whose field is missing, of the wrong type, or lacks a closing *)
(* quote is dropped without affecting the other rows of the same line, and  *)
(* each such dropped row increments a parse-miss counter of the loader by   *)
(* one: when parse_line has returned, no page stems from a row whose id is  *)
(* not a number, and one of the diagnostic counters the loaders keep has    *)
(* counted these rows.                                                      *)
(***************************************************************************)
\* the rows of the line whose first field is not a number
WrongTypeRows == {i \in 1..Len(sql_rows) : sql_rows[i].id = <<"a">>}

\* every counter the three loaders keep (PageLoader keeps none)
DiagnosticCounters ==
    <<linktarget_stats.parsed, linktarget_stats.mapped, linktarget_stats.title_misses,
      link_stats.parsed, link_stats.inserted, link_stats.from_misses,
      link_stats.target_misses>>

C35_MalformedRowDroppedAndCounted ==
    (sql_pc = "done" /\ WrongTypeRows # {}) =>
        /\ Len(sql_pages) <= Len(sql_rows) - Cardinality(WrongTypeRows)
        /\ \E c \in DOMAIN DiagnosticCounters :
               DiagnosticCounters[c] = Cardinality(WrongTypeRows)


(***************************************************************************)
(* C36: when the edge list handed to the graph builder holds an edge whose  *)
(* from_index or to_index is not below the page count, graph construction   *)
(* aborts instead of building an adjacency list with that edge: no instance *)
(* exists whose adjacency list holds an index that is not a page.           *)
(***************************************************************************)
AdjacencyHoldsOnlyPages ==
    \A i \in DOMAIN adjacency_list :
        \A j \in 1..Len(adjacency_list[i]) :
            adjacency_list[i][j] < Len(graph_pages)

ProgressPublishedBySearch ==
    /\ bfs_pc \in {"bfs", "backtrack", "done"}
    /\ dist # <<>>
    /\ bfs_progress.total_explored_nodes >= 1

\* the nodes the BFS found at the distance of the published layer
NodesOfPublishedLayer ==
    {v \in DOMAIN dist : dist[v] = bfs_progress.current_layer}

C37_ProgressCountersConsistent ==
    ProgressPublishedBySearch =>
        /\ bfs_progress.layer_size = Cardinality(NodesOfPublishedLayer)
        /\ bfs_progress.layer_explored_count <= bfs_progress.layer_size
        /\ bfs_progress.total_explored_nodes <= NumberOfPages(adjacency_list)


(***************************************************************************)
(* C38: in the parallel build the number of outstanding parse futures never *)
(* exceeds 2 x pool size + 1, the thread of parse_insert_lines waiting for  *)
(* the oldest future when the bound is exceeded; every submitted task is    *)
(* eventually executed by the pool; and the results reach on_first and      *)
(* on_result in submission order, in every interleaving of the workers.     *)
(***************************************************************************)
FuturesBounded ==
    /\ Len(pool_futures) <= 2 * MaxConcurrent + 1
    /\ Len(pool_futures) > 2 * MaxConcurrent => pool_pc = "drain_one"

\* what on_result was given is a prefix of the submissions, in their order,
\* and on_first was given the first submission only
EmittedInSubmissionOrder ==
    /\ pool_emitted = [i \in 1..Len(pool_emitted) |-> i]
    /\ Len(pool_emitted) <= pool_submitted
    /\ pool_first = IF pool_emitted = <<>> THEN <<>> ELSE <<1>>

AllSubmittedExecuted == pool_done = 1..pool_submitted

\* parse_insert_lines returns with every result handled
ReturnsWithEveryResult ==
    pool_pc = "eos" =>
        /\ AllSubmittedExecuted
        /\ Len(pool_emitted) = pool_submitted
        /\ pool_futures = <<>>

C38_BoundedFuturesInOrder ==
    /\ []FuturesBounded
    /\ []EmittedInSubmissionOrder
    /\ []ReturnsWithEveryResult
    /\ <>[]AllSubmittedExecuted

\* the bound is reached while a later task is ready before the oldest one
C38_Witness ==
    /\ Len(pool_futures) = 2 * MaxConcurrent + 1
    /\ Head(pool_futures) \notin pool_done
    /\ \E task \in pool_done : task > Head(pool_futures)


(***************************************************************************)
(* C39: when a parallel line reader is constructed for a data file and a    *)
(* block index file exists at the resolved index path ({data_path}.gzi or   *)
(* the explicit path), that index is imported into the decompressor before  *)
(* any line is read.                                                        *)
(***************************************************************************)
\* the constructor has returned and the index has not been exported yet
ReaderConstructed == idx_pc = "constructed"

IndexOnDisk == resolve_index_path(data_path, index_path) \in idx_files

C39_ExistingIndexImported ==
    (ReaderConstructed /\ IndexOnDisk) =>
        \E i \in 1..Len(idx_imported) :
            idx_imported[i] = resolve_index_path(data_path, index_path)

====
